---- MODULE Spec2Model ----
(***************************************************************************)
(* A model of MAGIN's judgment core (yo2158/magin, backend/):              *)
(*   - the per-judge call path (ai_factory._call_cli and                   *)
(*     magi_orchestrator.call_ai_async) with response validation,          *)
(*   - the parallel dispatch run_parallel_judgment with its completion     *)
(*     callback,                                                           *)
(*   - the two callers of the dispatch: severity_judge.judge_issue and     *)
(*     the SSE flow app.judge_stream_endpoint.run_judgment,                *)
(*   - the verdict logic of severity_judge.py.                             *)
(*                                                                         *)
(* JSON values are tagged records: a number is [num |-> n], a string       *)
(* [str |-> s], a list [list |-> seq]; a JSON object is a function from    *)
(* its keys to values (the empty object is << >>); Python's None is the    *)
(* record NoneVal.  Scores are kept in hundredths (0.8 is 80), vote        *)
(* totals and thresholds in tenths (1.5 is 15), severities as integers.    *)
(***************************************************************************)
EXTENDS Integers, Sequences, FiniteSets, TLC

\* ---------------------------------------------------------------- bounds
\* How many of the sample severities of SevPoints the judges may report.
NumSevPoints == 4
\* How many segments (lines of prose, raw objects, fenced blocks) a judge's
\* text is made of at most.
MaxSegments == 3
\* How many segments (opinions, echoes, prose, stray characters) the output
\* of a judge's call is made of at most.
MaxCallSegments == 3
\* How many tokens the texts have at most on which the scanning loops are
\* followed iteration by iteration.
MaxScanLen == 4

\* ------------------------------------------------------- program constants
NumJudges == 3
HighSeverity == 80
MidSeverity == 50
MaxSeverity == 100
MaxScore == 100
MinSuccessful == 2
NotApplicableQuorum == 2

Judges == 1..NumJudges

\* ------------------------------------------------------------ JSON values
NoneVal == [none |-> TRUE]
JNum(n) == [num |-> n]
JStr(s) == [str |-> s]
JList(q) == [list |-> q]
EmptyObj == << >>

\* A non-integral number, in tenths (60.7 is JFloat(607)); a boolean; the
\* float that json.loads reads from Infinity or from 1e999.
JFloat(t) == [flt |-> t]
JBool(b) == [bool |-> b]
JInf == [inf |-> TRUE]

IsNum(v) == DOMAIN v = {"num"}
IsStr(v) == DOMAIN v = {"str"}
IsList(v) == DOMAIN v = {"list"}
IsFloat(v) == DOMAIN v = {"flt"}
IsBool(v) == DOMAIN v = {"bool"}
\* isinstance(v, dict)
IsDict(v) ==
    /\ v \notin {NoneVal, JInf}
    /\ ~IsNum(v) /\ ~IsStr(v) /\ ~IsList(v) /\ ~IsFloat(v) /\ ~IsBool(v)

\* An exception of the given type with the given text.
Exception(type, msg) == [exc |-> type, msg |-> msg]
IsException(v) == "exc" \in DOMAIN v

\* Python truthiness of a value used in "if json_data:" / r.get("response").
Truthy(v) ==
    /\ v # NoneVal
    /\ v # EmptyObj
    /\ v # JList(<< >>)
    /\ v # JNum(0)
    /\ v # JStr("")
    /\ v # JBool(FALSE)

Clamp(lo, hi, x) == IF x < lo THEN lo ELSE IF x > hi THEN hi ELSE x

RECURSIVE SumSeq(_)
SumSeq(q) == IF q = << >> THEN 0 ELSE Head(q) + SumSeq(Tail(q))

RECURSIVE MaxSeq(_)
MaxSeq(q) ==
    IF Len(q) = 1 THEN Head(q)
    ELSE LET m == MaxSeq(Tail(q)) IN IF Head(q) >= m THEN Head(q) ELSE m

\* ------------------------------------------------- validate_ai_response
required_fields == <<"scores", "decision", "severity", "reason">>
required_scores == <<"validity", "feasibility", "risk", "certainty">>
\* The decision strings of the source are Japanese; the model names them in
\* ASCII: "Approve" is the source's approval string, "PartialApprove" its
\* partial approval, "Reject" its rejection, "ConditionalApprove" its
\* conditional approval; NOT_APPLICABLE is as in the source.
Approve == JStr("Approve")
PartialApprove == JStr("PartialApprove")
Reject == JStr("Reject")
ConditionalApprove == JStr("ConditionalApprove")
NotApplicable == JStr("NOT_APPLICABLE")
ValidDecisions == {Approve, PartialApprove, Reject, NotApplicable}
ValidHardFlags == {JStr("none"), JStr("compliance"), JStr("security"), JStr("privacy")}

\* The outcome of a coercion float(v) or int(v): a value, a TypeError or
\* ValueError (which the validator catches), or an OverflowError (which it
\* does not).
Coerced(n) == [st |-> "ok", val |-> n]
CoerceError == [st |-> "error"]
CoerceOverflow == [st |-> "overflow"]

\* float(s) and int(s) for the strings of the model: "60" reads as a number
\* under both, "0.5" under float only, every other string under neither.
\* float results are in hundredths.
float_of_str(s) ==
    CASE s = "60" -> Coerced(6000) [] s = "0.5" -> Coerced(50) [] OTHER -> CoerceError
int_of_str(s) ==
    CASE s = "60" -> Coerced(60) [] OTHER -> CoerceError

\* float(value) for a score, in hundredths; infinity is a value above every
\* bound.
to_float(v) ==
    CASE IsNum(v) -> Coerced(v.num)
      [] IsFloat(v) -> Coerced(v.flt * 10)
      [] IsBool(v) -> Coerced(IF v.bool THEN MaxScore ELSE 0)
      [] IsStr(v) -> float_of_str(v.str)
      [] v = JInf -> Coerced(MaxScore + 1)
      [] OTHER -> CoerceError

\* int(value) for a severity: a float is truncated toward zero, a string must
\* hold an integer, infinity raises OverflowError.
to_int(v) ==
    CASE IsNum(v) -> Coerced(v.num)
      [] IsFloat(v) -> Coerced(IF v.flt >= 0 THEN v.flt \div 10 ELSE -((-v.flt) \div 10))
      [] IsBool(v) -> Coerced(IF v.bool THEN 1 ELSE 0)
      [] IsStr(v) -> int_of_str(v.str)
      [] v = JInf -> CoerceOverflow
      [] OTHER -> CoerceError

\* Whether "key in container" can be evaluated, and the keys for which it is
\* true: the keys of an object, the strings in a list, and for a string its
\* substrings (the strings of the model are single words, so the word itself).
Iterable(c) == IsDict(c) \/ IsList(c) \/ IsStr(c)
Members(c) ==
    CASE IsDict(c) -> DOMAIN c
      [] IsList(c) -> {c.list[k].str : k \in {j \in 1..Len(c.list) : IsStr(c.list[j])}}
      [] OTHER -> {c.str}

\* The first element of the sequence q that is not in the set S ("" if none).
RECURSIVE FirstMissing(_, _)
FirstMissing(q, S) ==
    IF q = << >> THEN ""
    ELSE IF Head(q) \notin S THEN Head(q) ELSE FirstMissing(Tail(q), S)

\* The first required score for which float(sanitized["scores"][key]) raises
\* TypeError or ValueError ("" if none); indexing a container that is not an
\* object with a key raises TypeError.
RECURSIVE FirstBadScore(_, _)
FirstBadScore(q, scores) ==
    IF q = << >> THEN ""
    ELSE IF ~IsDict(scores) THEN Head(q)
    ELSE IF to_float(scores[Head(q)]).st # "ok" THEN Head(q)
    ELSE FirstBadScore(Tail(q), scores)

ValidationResult(ok, err, obj) == [is_valid |-> ok, error_msg |-> err, sanitized |-> obj]
\* validate_ai_response does not return: the exception e leaves it.
ValidationRaises(e) == [raised |-> e]
Raised(v) == "raised" \in DOMAIN v

\* Whether sum() accepts the value, and what it adds (in hundredths).
Summable(v) == IsNum(v) \/ IsFloat(v) \/ IsBool(v) \/ v = JInf
Addend(v) ==
    CASE IsNum(v) -> v.num
      [] IsFloat(v) -> v.flt * 10
      [] IsBool(v) -> IF v.bool THEN MaxScore ELSE 0
      [] OTHER -> 0

\* sum(scores.values()) / len(scores) over every entry of the container,
\* kept as the exact fraction sum/count of hundredths (infinity if an entry
\* is infinite).
AverageOf(scores) ==
    LET keys == DOMAIN scores
        RECURSIVE Total(_)
        Total(K) == IF K = {} THEN 0
                    ELSE LET k == CHOOSE k \in K : TRUE
                         IN Addend(scores[k]) + Total(K \ {k})
    IN IF \E k \in keys : scores[k] = JInf THEN JInf
       ELSE [avg |-> [sum |-> Total(keys), count |-> Cardinality(keys)]]

\* Step 3: a required score clipped to 0.0..1.0.
clip_score(v) == JNum(Clamp(0, MaxScore, to_float(v).val))

\* Step 4 with an illegal decision left as it is.
sanitize_decision_keep(decision) == decision

\* Step 4: an illegal decision becomes the rejection.
sanitize_decision(decision) == IF decision \in ValidDecisions THEN decision ELSE Reject

\* Step 6: an absent or illegal hard_flag becomes "none".
sanitize_hard_flag(response) ==
    IF "hard_flag" \in DOMAIN response /\ response["hard_flag"] \in ValidHardFlags
    THEN response["hard_flag"] ELSE JStr("none")

\* Step 7 with None, not the empty list, for absent concerns.
sanitize_concerns_absent_none(response) ==
    IF "concerns" \notin DOMAIN response THEN NoneVal
    ELSE IF IsList(response["concerns"]) THEN response["concerns"] ELSE JList(<< >>)

\* Step 7: concerns that are absent or no list become the empty list.
sanitize_concerns(response) ==
    IF "concerns" \in DOMAIN response /\ IsList(response["concerns"])
    THEN response["concerns"] ELSE JList(<< >>)

\* validate_ai_response.  The deep copy json.loads(json.dumps(response)) of a
\* value that came out of json.loads is that value again.
validate_ai_response(response) ==
    IF ~Truthy(response) THEN ValidationResult(FALSE, JStr("Empty response"), NoneVal)
    ELSE IF FirstMissing(required_fields, DOMAIN response) # ""
    THEN ValidationResult(FALSE,
            JStr("missing required field: " \o FirstMissing(required_fields, DOMAIN response)), NoneVal)
    ELSE IF ~Iterable(response["scores"])
    THEN ValidationRaises(Exception("TypeError", "argument is not iterable"))
    ELSE IF FirstMissing(required_scores, Members(response["scores"])) # ""
    THEN ValidationResult(FALSE,
            JStr("missing required score: "
                 \o FirstMissing(required_scores, Members(response["scores"]))), NoneVal)
    ELSE IF FirstBadScore(required_scores, response["scores"]) # ""
    THEN ValidationResult(FALSE,
            JStr("invalid score value: " \o FirstBadScore(required_scores, response["scores"])), NoneVal)
    ELSE IF to_int(response["severity"]).st = "error"
    THEN ValidationResult(FALSE, JStr("invalid severity value"), NoneVal)
    ELSE IF to_int(response["severity"]).st = "overflow"
    THEN ValidationRaises(Exception("OverflowError", "cannot convert float infinity to integer"))
    ELSE
      LET clipped == [k \in DOMAIN response["scores"] |->
                        IF k \in {required_scores[i] : i \in 1..Len(required_scores)}
                        THEN clip_score(response["scores"][k])
                        ELSE response["scores"][k]]
          severity == JNum(Clamp(0, MaxSeverity, to_int(response["severity"]).val))
          keys == DOMAIN response \cup {"hard_flag", "concerns", "average_score"}
      IN IF "average_score" \notin DOMAIN response
            /\ \E k \in DOMAIN clipped : ~Summable(clipped[k])
         THEN ValidationRaises(Exception("TypeError", "unsupported operand type(s) for +"))
         ELSE ValidationResult(TRUE, NoneVal,
                [k \in keys |->
                   CASE k = "scores" -> clipped
                     [] k = "decision" -> sanitize_decision(response["decision"])
                     [] k = "severity" -> severity
                     [] k = "hard_flag" -> sanitize_hard_flag(response)
                     [] k = "concerns" -> sanitize_concerns(response)
                     [] k = "average_score" ->
                          IF "average_score" \in DOMAIN response
                          THEN response["average_score"] ELSE AverageOf(clipped)
                     [] OTHER -> response[k]])


\* ------------------------------------------- extract_json_from_markdown
\* A text is a sequence of tokens, each a fixed piece of text:
\*   "LB" {    "RB" }    "QT" a double quote    "BS" a backslash
\*   "W"  the letter x       "NL" a newline      "TICKS" three backticks
\*   "JSON" the word json    "KA" the four characters a":1
\*   "KB" the four characters b":2
\* so that the object {"a":1} is the tokens LB QT KA RB.  The members of an
\* opinion are tokens of their own, written without any space:
\*   "SC" "scores":
\*   "SV" "validity":0.8,"feasibility":0.7,"risk":0.6,"certainty":0.9
\*   "DA" ,"decision":<approval>,"severity":30,"reason":"r"
\*   "DR" ,"decision":<rejection>,"severity":40,"reason":"r"
\*   "DN" ,"decision":"NOT_APPLICABLE","severity":0,"reason":"r"
\*   "PN" "persona_name":"x"
\* so that an approving opinion is the tokens LB SC LB SV RB DA RB.
WordTokens == {"W", "JSON"}
KeyTokens == {"KA", "KB"}
TailTokens == {"DA", "DR", "DN"}
\* The member tokens that begin with a double quote.
QuotedMemberTokens == {"SC", "SV", "PN"}

\* len() of the text of a token.
CharLen(tok) ==
    CASE tok \in {"LB", "RB", "QT", "BS", "W", "NL"} -> 1
      [] tok = "TICKS" -> 3
      [] tok \in {"JSON", "KA", "KB"} -> 4
      [] tok = "SC" -> 9
      [] tok = "SV" -> 59
      [] tok \in {"DA", "DR"} -> 43
      [] tok = "DN" -> 54
      [] tok = "PN" -> 18

\* What json.loads reads from the member tokens.
ScoreMembers ==
    [validity |-> JNum(80), feasibility |-> JNum(70), risk |-> JNum(60), certainty |-> JNum(90)]
TailMembers(tok) ==
    CASE tok = "DA" -> [decision |-> Approve, severity |-> JNum(30), reason |-> JStr("r")]
      [] tok = "DR" -> [decision |-> Reject, severity |-> JNum(40), reason |-> JStr("r")]
      [] tok = "DN" -> [decision |-> NotApplicable, severity |-> JNum(0), reason |-> JStr("r")]
PersonaMember == [persona_name |-> JStr("x")]

\* Whether the tokens from position i on are letters that end in a":  or b":
RECURSIVE IdentThenQuoteColon(_, _)
IdentThenQuoteColon(t, i) ==
    /\ i <= Len(t)
    /\ \/ t[i] \in KeyTokens
       \/ t[i] \in WordTokens /\ IdentThenQuoteColon(t, i + 1)

\* re.sub(r'(\n\s*)([a-zA-Z_][a-zA-Z0-9_]*)":', r'\1"\2":', text): a double
\* quote is put in front of an identifier that starts a line and is followed
\* by ": .
RECURSIVE fix_missing_quotes_from(_, _)
fix_missing_quotes_from(t, i) ==
    IF i > Len(t) THEN << >>
    ELSE (IF i > 1 /\ t[i - 1] = "NL" /\ IdentThenQuoteColon(t, i) THEN <<"QT">> ELSE << >>)
         \o <<t[i]>> \o fix_missing_quotes_from(t, i + 1)

fix_missing_quotes(t) == fix_missing_quotes_from(t, 1)

\* The text of the characters of a JSON string, in the escaped form in which
\* json.dumps writes it (an escaped quote or backslash stays two characters)
\* and three backticks written as three apostrophes ("" and FALSE if the
\* characters are not legal: a raw quote, a newline, a backslash before
\* anything but a quote or a backslash).
RECURSIVE StringChars(_)
StringChars(q) ==
    IF q = << >> THEN [ok |-> TRUE, str |-> ""]
    ELSE IF Head(q) = "BS"
    THEN IF Len(q) >= 2 /\ q[2] \in {"QT", "BS"}
         THEN LET rest == StringChars(Tail(Tail(q)))
              IN [ok |-> rest.ok, str |-> (IF q[2] = "QT" THEN "\\\"" ELSE "\\\\") \o rest.str]
         ELSE [ok |-> FALSE, str |-> ""]
    ELSE IF Head(q) \in {"W", "JSON", "LB", "RB", "TICKS"}
    THEN LET rest == StringChars(Tail(q))
         IN [ok |-> rest.ok,
             str |-> (CASE Head(q) = "W" -> "x" [] Head(q) = "JSON" -> "json"
                        [] Head(q) = "LB" -> "{" [] Head(q) = "RB" -> "}"
                        [] OTHER -> "'''") \o rest.str]
    ELSE [ok |-> FALSE, str |-> ""]

\* q without its leading and trailing newlines.
RECURSIVE StripNewlines(_)
StripNewlines(q) ==
    IF q = << >> THEN q
    ELSE IF Head(q) = "NL" THEN StripNewlines(Tail(q))
    ELSE IF q[Len(q)] = "NL" THEN StripNewlines(SubSeq(q, 1, Len(q) - 1))
    ELSE q

ParseError == [ok |-> FALSE]
Parsed(v) == [ok |-> TRUE, value |-> v]

\* The result of parsing a part of a text: the value and the position behind
\* it.
ParseFail == [ok |-> FALSE]
ParsedTo(v, next) == [ok |-> TRUE, value |-> v, next |-> next]

\* The position at or behind i of the first token that is no newline.
RECURSIVE skip_ws(_, _)
skip_ws(q, i) == IF i <= Len(q) /\ q[i] = "NL" THEN skip_ws(q, i + 1) ELSE i

\* The token at which the JSON string that is open at position p ends: a key
\* token, a quote, or a quoted member token behind a backslash (the escape
\* takes its quote, and its text ends the string); 0 if the string is not
\* legal.  escaped tells that a backslash stands before that token.
RECURSIVE string_end(_, _)
string_end(q, p) ==
    IF p > Len(q) THEN [at |-> 0, escaped |-> FALSE]
    ELSE IF q[p] = "BS"
    THEN IF p + 1 <= Len(q) /\ q[p + 1] \in {"QT", "BS"} THEN string_end(q, p + 2)
         ELSE IF p + 1 <= Len(q) /\ q[p + 1] \in {"KB"} \cup QuotedMemberTokens
         THEN [at |-> p + 1, escaped |-> TRUE]
         ELSE [at |-> 0, escaped |-> FALSE]
    ELSE IF q[p] \in KeyTokens \cup {"QT"} THEN [at |-> p, escaped |-> FALSE]
    ELSE IF q[p] \in {"W", "JSON", "LB", "RB", "TICKS"} THEN string_end(q, p + 1)
    ELSE [at |-> 0, escaped |-> FALSE]

\* An object from its opening brace at position i, and a value (an object or
\* a string) at position i.  The first member of an object is a key with the
\* value 1 or 2, "scores" with a value, the four scores or the persona name;
\* the decision members may follow, a later one overriding an earlier.
RECURSIVE parse_object(_, _), parse_value(_, _), parse_tails(_, _, _)
parse_tails(q, i, members) ==
    IF i > Len(q) THEN ParseFail
    ELSE IF q[i] = "RB" THEN ParsedTo(members, i + 1)
    ELSE IF q[i] \in TailTokens
    THEN parse_tails(q, skip_ws(q, i + 1), TailMembers(q[i]) @@ members)
    ELSE ParseFail

parse_value(q, i) ==
    IF i > Len(q) THEN ParseFail
    ELSE IF q[i] = "LB" THEN parse_object(q, i)
    ELSE IF q[i] = "QT"
    THEN LET EndsAt(e) ==
                 IF e # 0 /\ q[e] = "QT"
                 THEN ParsedTo(JStr(StringChars(SubSeq(q, i + 1, e - 1)).str), e + 1)
                 ELSE ParseFail
         IN EndsAt(string_end(q, i + 1).at)
    ELSE ParseFail

parse_object(q, i) ==
    LET Rest(first) ==
            IF ~first.ok THEN ParseFail
            ELSE parse_tails(q, skip_ws(q, first.next), first.value)
        \* a: the first token of the object; end: the token that ends the
        \* key opened at a; chars: the characters of the key in front of
        \* that token; scores: the value behind a "scores" key
        First(a, end, e, chars, scores) ==
            CASE q[a] = "SC" ->
                   IF scores.ok THEN ParsedTo("scores" :> scores.value, scores.next)
                   ELSE ParseFail
              [] q[a] = "SV" -> ParsedTo(ScoreMembers, a + 1)
              [] q[a] = "PN" -> ParsedTo(PersonaMember, a + 1)
              [] q[a] = "QT" /\ e # 0 /\ q[e] \in KeyTokens ->
                   ParsedTo((chars \o (IF end.escaped THEN "\\b"
                                       ELSE IF q[e] = "KA" THEN "a" ELSE "b"))
                              :> JNum(IF q[e] = "KA" THEN 1 ELSE 2), e + 1)
              [] q[a] = "QT" /\ e # 0 /\ q[e] = "SC" ->
                   IF scores.ok THEN ParsedTo((chars \o "\\\"scores") :> scores.value, scores.next)
                   ELSE ParseFail
              [] q[a] = "QT" /\ e # 0 /\ q[e] = "SV" ->
                   ParsedTo(((chars \o "\\\"validity") :> JNum(80))
                              @@ [k \in {"feasibility", "risk", "certainty"} |-> ScoreMembers[k]],
                            e + 1)
              [] q[a] = "QT" /\ e # 0 /\ q[e] = "PN" ->
                   ParsedTo((chars \o "\\\"persona_name") :> JStr("x"), e + 1)
              [] OTHER -> ParseFail
        Keyed(a, end) ==
            Rest(First(a, end, end.at,
                          StringChars(SubSeq(q, a + 1, IF end.escaped THEN end.at - 2
                                                       ELSE end.at - 1)).str,
                          parse_value(q, skip_ws(q, IF q[a] = "SC" THEN a + 1
                                                    ELSE end.at + 1))))
        From(a) ==
            IF a > Len(q) THEN ParseFail
            ELSE IF q[a] = "RB" THEN ParsedTo(EmptyObj, a + 1)
            ELSE Keyed(a, string_end(q, a + 1))
    IN From(skip_ws(q, i + 1))

\* json.loads for the JSON texts the tokens can spell: a string or an object;
\* anything else is a JSONDecodeError.
json_loads(q) ==
    LET core == StripNewlines(q)
        n == Len(core)
    IN IF n < 2 THEN ParseError
       ELSE IF core[1] = "QT" /\ core[n] = "QT"
       THEN LET chars == StringChars(SubSeq(core, 2, n - 1))
            IN IF chars.ok THEN Parsed(JStr(chars.str)) ELSE ParseError
       ELSE IF core[1] = "LB"
       THEN LET Whole(obj) ==
                    IF obj.ok /\ obj.next = n + 1 THEN Parsed(obj.value) ELSE ParseError
            IN Whole(parse_object(core, 1))
       ELSE ParseError

\* The number of newlines in a row from position p on.
RECURSIVE NewlineRun(_, _)
NewlineRun(t, p) == IF p <= Len(t) /\ t[p] = "NL" THEN 1 + NewlineRun(t, p + 1) ELSE 0

\* The positions j >= c at which a newline is followed by three backticks.
FenceEnds(t, c) == {j \in c..(Len(t) - 1) : t[j] = "NL" /\ t[j + 1] = "TICKS"}

NoMatch == [found |-> FALSE]

\* What the pattern matches when tried at position i, the white space \s*\n
\* beginning at position ws: group 1 runs from the end of the newlines to the
\* first newline that three backticks follow; if there is none but the last
\* of two or more newlines is itself followed by backticks, group 1 is blank.
FenceAt(t, i, ws) ==
    LET Group(r, c, ends) ==
            IF r = 0 THEN NoMatch
            ELSE IF ends # {}
            THEN [found |-> TRUE,
                  content |-> SubSeq(t, c, (CHOOSE j \in ends : \A k \in ends : j <= k) - 1)]
            ELSE IF r >= 2 /\ c <= Len(t) /\ t[c] = "TICKS"
            THEN [found |-> TRUE, content |-> << >>]
            ELSE NoMatch
        Run(r) == Group(r, ws + r, FenceEnds(t, ws + r))
    IN Run(NewlineRun(t, ws))

\* re.search(r'```json\s*\n(.*?)\n```', text, re.DOTALL) and
\* re.search(r'```\s*\n(.*?)\n```', text, re.DOTALL): the leftmost match.
fence_search(t, labelled) ==
    LET At(i) == IF t[i] # "TICKS" THEN NoMatch
                 ELSE IF ~labelled THEN FenceAt(t, i, i + 1)
                 ELSE IF i < Len(t) /\ t[i + 1] = "JSON" THEN FenceAt(t, i, i + 2)
                 ELSE NoMatch
        matches == [i \in 1..Len(t) |-> At(i)]
        Leftmost(m, starts) ==
            IF starts = {} THEN NoMatch
            ELSE m[CHOOSE i \in starts : \A k \in starts : i <= k]
        Of(m) == Leftmost(m, {i \in 1..Len(t) : m[i].found})
    IN Of(matches)

\* The inner loop of the raw scan from position i: the position of the
\* closing brace at which brace_count returns to 0, or 0 if the text ends
\* first.  A backslash makes the loop skip the next character; a token toggles
\* in_string if the loop meets an odd number of quotes in it.
RECURSIVE closing_brace(_, _, _, _, _)
closing_brace(t, i, brace_count, in_string, escape_next) ==
    IF i > Len(t) THEN 0
    ELSE IF escape_next
    THEN closing_brace(t, i + 1, brace_count,
                       IF t[i] \in KeyTokens \cup QuotedMemberTokens THEN ~in_string
                       ELSE in_string, FALSE)
    ELSE IF t[i] = "BS" THEN closing_brace(t, i + 1, brace_count, in_string, TRUE)
    ELSE IF t[i] = "QT" \/ t[i] \in KeyTokens
    THEN closing_brace(t, i + 1, brace_count, ~in_string, FALSE)
    ELSE IF ~in_string /\ t[i] = "LB"
    THEN closing_brace(t, i + 1, brace_count + 1, in_string, FALSE)
    ELSE IF ~in_string /\ t[i] = "RB"
    THEN IF brace_count = 1 THEN i
         ELSE closing_brace(t, i + 1, brace_count - 1, in_string, FALSE)
    ELSE closing_brace(t, i + 1, brace_count, in_string, FALSE)

\* What one iteration of a scanning loop does: it returns a value, or the
\* loop goes on from a new search position.
ScanReturns(v) == [done |-> TRUE, result |-> v]
ScanResumes(pos) == [done |-> FALSE, search_start |-> pos]

\* One iteration of the outer loop of the raw scan with the search at
\* search_start: the balanced span from the next opening brace is returned if
\* it parses; after a span that does not parse the scan goes on behind its
\* closing brace, and after an opening brace that is never closed behind that
\* brace.  With no opening brace left the scan returns None.
raw_scan_step(t, search_start) ==
    LET braces == {i \in search_start..Len(t) : t[i] = "LB"}
        Loaded(end_idx, json) ==
            IF json.ok THEN ScanReturns(json.value) ELSE ScanResumes(end_idx + 1)
        Span(start_idx, end_idx) ==
            IF end_idx = 0 THEN ScanResumes(start_idx + 1)
            ELSE Loaded(end_idx, json_loads(SubSeq(t, start_idx, end_idx)))
        From(start_idx) == Span(start_idx, closing_brace(t, start_idx, 0, FALSE, FALSE))
    IN IF braces = {} THEN ScanReturns(NoneVal)
       ELSE From(CHOOSE i \in braces : \A k \in braces : i <= k)

\* The raw scan from search_start: the iterations of its outer loop.
RECURSIVE raw_scan(_, _)
raw_scan(t, search_start) ==
    LET After(step) == IF step.done THEN step.result ELSE raw_scan(t, step.search_start)
    IN After(raw_scan_step(t, search_start))

\* extract_json_from_markdown with the unlabelled fence tried first.
extract_json_plain_fence_first(text) ==
    LET Content(fence) == IF fence.found THEN json_loads(fence.content) ELSE ParseError
        Second(t, json) == IF json.ok THEN json.value ELSE raw_scan(t, 1)
        First(t, json) ==
            IF json.ok THEN json.value ELSE Second(t, Content(fence_search(t, TRUE)))
        Repaired(t) == First(t, Content(fence_search(t, FALSE)))
    IN IF text = << >> THEN NoneVal ELSE Repaired(fix_missing_quotes(text))

\* extract_json_from_markdown up to its raw scan: it returns None for the
\* empty text and the content of the labelled fence or of the unlabelled
\* fence if that parses (a fence whose content does not parse is passed
\* over), and enters the raw scan at the start of the text otherwise.
before_scan(text) ==
    LET Content(fence) == IF fence.found THEN json_loads(fence.content) ELSE ParseError
        Second(json) == IF json.ok THEN ScanReturns(json.value) ELSE ScanResumes(1)
        First(t, json) ==
            IF json.ok THEN ScanReturns(json.value)
            ELSE Second(Content(fence_search(t, FALSE)))
        Repaired(t) == First(t, Content(fence_search(t, TRUE)))
    IN IF text = << >> THEN ScanReturns(NoneVal) ELSE Repaired(fix_missing_quotes(text))

\* extract_json_from_markdown: the labelled fence, the unlabelled fence, the
\* raw scan.
extract_json_from_markdown(text) ==
    LET Scan(entry) ==
            IF entry.done THEN entry.result
            ELSE raw_scan(fix_missing_quotes(text), entry.search_start)
    IN Scan(before_scan(text))


\* ------------------------------------------------------ judge call results
TimeoutTag == JStr("timeout")
ExecErrorTag == JStr("execution error")
StderrText == JStr("stderr text")

\* JSON selection of _call_cli / call_ai_async for an output that holds at
\* most one object: json is what extract_json_from_markdown returns for it.
\* The ChatGPT/Codex branch keeps a candidate only if it is truthy and is
\* neither a persona echo, nor a NOT_APPLICABLE object, nor a bare score
\* object, and takes the last kept candidate (None if there is none).
select_json(is_chatgpt, json) ==
    IF ~is_chatgpt THEN json
    ELSE IF ~Truthy(json) THEN NoneVal
    ELSE LET is_persona == "persona_name" \in DOMAIN json
             is_not_applicable == "decision" \in DOMAIN json /\ json["decision"] = NotApplicable
             is_incomplete == "scores" \notin DOMAIN json /\ "validity" \in DOMAIN json
         IN IF ~is_persona /\ ~is_not_applicable /\ ~is_incomplete THEN json ELSE NoneVal

FailureResult(err) == [success |-> FALSE, response |-> NoneVal, error |-> err]

\* The end of a call with a result that counts a call without json_data as
\* successful.
finish_call_succeeds_without_json(json_data, stderr) ==
    LET v == validate_ai_response(json_data)
    IN IF Truthy(json_data) /\ Raised(v)
       THEN FailureResult(JStr(v.raised.msg))
       ELSE IF Truthy(json_data) /\ ~v.is_valid
       THEN FailureResult(JStr("Validation error: " \o v.error_msg.str))
       ELSE LET final == IF Truthy(json_data) THEN v.sanitized ELSE json_data
            IN [success |-> TRUE,
                response |-> final,
                error |-> IF stderr /\ ~Truthy(final) THEN StderrText ELSE NoneVal]

\* The end of a call: validate the selected json_data and build the result
\* dictionary; stderr tells whether the subprocess wrote to its error stream.
finish_call(json_data, stderr) ==
    LET v == validate_ai_response(json_data)
    IN IF Truthy(json_data) /\ Raised(v)
       THEN FailureResult(JStr(v.raised.msg))
       ELSE IF Truthy(json_data) /\ ~v.is_valid
       THEN FailureResult(JStr("Validation error: " \o v.error_msg.str))
       ELSE LET final == IF Truthy(json_data) THEN v.sanitized ELSE json_data
            IN [success |-> final # NoneVal,
                response |-> final,
                error |-> IF stderr /\ ~Truthy(final) THEN StderrText ELSE NoneVal]

\* The part of a call after the subprocess returned: select, validate, build
\* the result dictionary.
call_body(is_chatgpt, out) == finish_call(select_json(is_chatgpt, out.json), out.stderr)

\* --------------------------------------------- the call on a judge's text
\* The number of characters in front of token i, and len() of the text.
Offset(t, i) == SumSeq([j \in 1..(i - 1) |-> CharLen(t[j])])
TextLen(t) == Offset(t, Len(t) + 1)

\* clean_output.find('{', pos): the first opening brace whose offset is at
\* least pos (0 where find returns -1).
find_brace(t, pos) ==
    LET braces == {i \in 1..Len(t) : t[i] = "LB" /\ Offset(t, i) >= pos}
    IN IF braces = {} THEN 0 ELSE CHOOSE i \in braces : \A j \in braces : i <= j

\* len() of what json.dumps(value, ensure_ascii=False) writes.  A string is
\* as long as its text in the source (the approval and the rejection are 2
\* characters each); a number is a severity, written in its digits, the
\* value of a key token, one digit, or a score, written 0.x.
string_text_len(s) ==
    CASE s \in {"Approve", "Reject"} -> 2
      [] s = "PartialApprove" -> 5
      [] s = "ConditionalApprove" -> 6
      [] OTHER -> Len(s)
number_text_len(k, n) ==
    IF k = "severity" THEN (IF n < 10 THEN 1 ELSE IF n < 100 THEN 2 ELSE 3)
    ELSE IF n < 10 THEN 1 ELSE 3

RECURSIVE json_dumps_len(_), members_len(_, _)
members_len(v, keys) ==
    IF keys = {} THEN 0
    ELSE LET k == CHOOSE x \in keys : TRUE
         IN Len(k) + 4
            + (IF IsNum(v[k]) THEN number_text_len(k, v[k].num) ELSE json_dumps_len(v[k]))
            + members_len(v, keys \ {k})
json_dumps_len(v) ==
    IF IsStr(v) THEN string_text_len(v.str) + 2
    ELSE IF v = EmptyObj THEN 2
    ELSE 2 + members_len(v, DOMAIN v) + 2 * (Cardinality(DOMAIN v) - 1)

\* str(e) of the AttributeError that test_json.get raises when the recoverer
\* returned a string.
StrHasNoGet == JStr("'str' object has no attribute 'get'")

\* An iteration of the multi-candidate loop that goes on AT the brace, not
\* behind it, after a candidate that is falsy.
select_step_stays_at_brace(clean_output, search_pos, all_jsons) ==
    LET Candidate(at, test_json) ==
            LET is_persona == "persona_name" \in DOMAIN test_json
                is_not_applicable ==
                    "decision" \in DOMAIN test_json /\ test_json["decision"] = NotApplicable
                is_incomplete ==
                    "scores" \notin DOMAIN test_json /\ "validity" \in DOMAIN test_json
            IN IF ~Truthy(test_json)
               THEN [done |-> FALSE, search_pos |-> at, all_jsons |-> all_jsons]
               ELSE IF IsStr(test_json)
               THEN [done |-> TRUE, raised |-> TRUE, all_jsons |-> all_jsons]
               ELSE [done |-> FALSE, search_pos |-> at + json_dumps_len(test_json),
                     all_jsons |-> IF ~is_persona /\ ~is_not_applicable /\ ~is_incomplete
                                   THEN Append(all_jsons, test_json) ELSE all_jsons]
        Brace(brace_pos) ==
            IF ~(search_pos < TextLen(clean_output)) \/ brace_pos = 0
            THEN [done |-> TRUE, raised |-> FALSE, all_jsons |-> all_jsons]
            ELSE Candidate(Offset(clean_output, brace_pos),
                           extract_json_from_markdown(
                               SubSeq(clean_output, brace_pos, Len(clean_output))))
    IN Brace(find_brace(clean_output, search_pos))

\* One iteration of the multi-candidate loop of the ChatGPT/Codex branch
\* with the search at search_pos: the recoverer is applied to the text from
\* the next opening brace on; a truthy candidate is kept unless the filter
\* discards it, and the search goes on behind as many characters as
\* json.dumps writes for it; after a falsy one it goes on behind the brace.
\* The iteration raises if the recoverer returned a string.
SelectEnds(raised, all_jsons) ==
    [done |-> TRUE, raised |-> raised, all_jsons |-> all_jsons]
SelectGoesOn(pos, all_jsons) ==
    [done |-> FALSE, search_pos |-> pos, all_jsons |-> all_jsons]
select_step(clean_output, search_pos, all_jsons) ==
    LET \* the candidate that the recoverer returns for the text from the
        \* opening brace at offset at
        Candidate(at, test_json) ==
            LET is_persona == "persona_name" \in DOMAIN test_json
                is_not_applicable ==
                    "decision" \in DOMAIN test_json /\ test_json["decision"] = NotApplicable
                is_incomplete ==
                    "scores" \notin DOMAIN test_json /\ "validity" \in DOMAIN test_json
            IN IF ~Truthy(test_json) THEN SelectGoesOn(at + 1, all_jsons)
               ELSE IF IsStr(test_json) THEN SelectEnds(TRUE, all_jsons)
               ELSE SelectGoesOn(at + json_dumps_len(test_json),
                        IF ~is_persona /\ ~is_not_applicable /\ ~is_incomplete
                        THEN Append(all_jsons, test_json) ELSE all_jsons)
        Brace(brace_pos) ==
            IF ~(search_pos < TextLen(clean_output)) \/ brace_pos = 0
            THEN SelectEnds(FALSE, all_jsons)
            ELSE Candidate(Offset(clean_output, brace_pos),
                           extract_json_from_markdown(
                               SubSeq(clean_output, brace_pos, Len(clean_output))))
    IN Brace(find_brace(clean_output, search_pos))

\* The multi-candidate loop from search_pos on: its iterations.
RECURSIVE select_candidates(_, _, _)
select_candidates(clean_output, search_pos, all_jsons) ==
    LET After(step) ==
            IF step.done THEN step
            ELSE select_candidates(clean_output, step.search_pos, step.all_jsons)
    IN After(select_step(clean_output, search_pos, all_jsons))

\* _call_cli / call_ai_async from the subprocess's output text on: strip,
\* select (the multi-candidate loop for ChatGPT/Codex, the recoverer for the
\* others), validate, build the result; an exception on the way is caught
\* and becomes a failure that carries its text.
call_cli_text(engine, text, stderr) ==
    LET Selected(sel) ==
            IF sel.raised THEN FailureResult(StrHasNoGet)
            ELSE finish_call(IF sel.all_jsons # << >> THEN sel.all_jsons[Len(sel.all_jsons)]
                             ELSE NoneVal, stderr)
        Stripped(clean_output) ==
            IF engine # "ChatGPT"
            THEN finish_call(extract_json_from_markdown(clean_output), stderr)
            ELSE Selected(select_candidates(clean_output, 0, << >>))
    IN Stripped(StripNewlines(text))

\* ai_factory._call_cli for the CLI engines: the outcome of one call.
call_cli(engine, out) ==
    CASE out.kind = "timeout" -> FailureResult(TimeoutTag)
      [] out.kind = "error"   -> FailureResult(ExecErrorTag)
      [] OTHER                -> call_body(engine = "ChatGPT", out)

\* ai_factory.call_ai: routes the CLI engines to _call_cli.
call_ai(engine, out) == call_cli(engine, out)

\* magi_orchestrator.call_ai_async (the AI_CONFIGS fallback): as _call_cli,
\* the result carrying the judge's name.
call_ai_async(ai_name, out) ==
    LET r == CASE out.kind = "timeout" -> FailureResult(TimeoutTag)
               [] out.kind = "error"   -> FailureResult(ExecErrorTag)
               [] OTHER                -> call_body(ai_name = "ChatGPT", out)
    IN [ai |-> ai_name] @@ r

\* ------------------------------------------------------------ configuration
\* config_manager.get_default_config: the three nodes.
DefaultNodes ==
    << [name |-> "NODE 1", engine |-> "Claude"],
       [name |-> "NODE 2", engine |-> "Gemini"],
       [name |-> "NODE 3", engine |-> "ChatGPT"] >>

\* magi_orchestrator.AI_CONFIGS: the fallback judge list.
AI_CONFIGS ==
    << [name |-> "Claude"], [name |-> "Gemini"], [name |-> "ChatGPT"] >>

\* The name under which judge i is configured.
ConfiguredName(nds, i) == IF nds # << >> THEN nds[i].name ELSE AI_CONFIGS[i].name


\* ------------------------------------------------------------ severity_judge
\* r.get("success") and r.get("response")
Counted(r) == r.success /\ Truthy(r.response)

\* dict.get(key, default) on a response object.
Get(obj, key, default) == IF key \in DOMAIN obj THEN obj[key] ELSE default

RECURSIVE SeqContains(_, _)
SeqContains(q, x) == q # << >> /\ (Head(q) = x \/ SeqContains(Tail(q), x))

\* check_hard_flags: the distinct flags other than "none" of ALL responses
\* that carry a dictionary, in order of first appearance.
RECURSIVE check_hard_flags_from(_, _)
check_hard_flags_from(responses, detected) ==
    IF responses = << >> THEN detected
    ELSE LET r == Head(responses)
             hard_flag == Get(r.response, "hard_flag", JStr("none"))
         IN IF Truthy(r.response) /\ IsDict(r.response)
               /\ hard_flag # JStr("none") /\ ~SeqContains(detected, hard_flag)
            THEN check_hard_flags_from(Tail(responses), Append(detected, hard_flag))
            ELSE check_hard_flags_from(Tail(responses), detected)

check_hard_flags(responses) == check_hard_flags_from(responses, << >>)

\* The severities _compute_final_severity collects.
RECURSIVE CollectSeverities(_)
CollectSeverities(responses) ==
    IF responses = << >> THEN << >>
    ELSE LET r == Head(responses)
         IN IF Counted(r) /\ "severity" \in DOMAIN r.response
            THEN <<r.response["severity"].num>> \o CollectSeverities(Tail(responses))
            ELSE CollectSeverities(Tail(responses))

\* The superseded formula of calculate_judgment_severity, max(mean, 0.8 * max),
\* rounded down to an integer.
compute_final_severity_legacy(responses) ==
    LET severities == CollectSeverities(responses)
        avg == SumSeq(severities) \div Len(severities)
        damped == (MaxSeq(severities) * 8) \div 10
    IN IF severities = << >> THEN 0 ELSE IF avg >= damped THEN avg ELSE damped

\* _compute_final_severity: the maximum of the collected severities, 0 if none.
compute_final_severity(responses) ==
    LET severities == CollectSeverities(responses)
    IN IF severities = << >> THEN 0 ELSE MaxSeq(severities)

\* _get_judgment_thresholds with the rows of the HIGH and the MID tier swapped.
get_judgment_thresholds_rows_swapped(severity) ==
    IF severity >= HighSeverity THEN [approve |-> 20, conditional |-> 15]
    ELSE IF severity >= MidSeverity THEN [approve |-> 30, conditional |-> 20]
    ELSE [approve |-> 15, conditional |-> 10]

\* _get_judgment_thresholds with strict comparisons at the tier boundaries.
get_judgment_thresholds_strict(severity) ==
    IF severity > HighSeverity THEN [approve |-> 30, conditional |-> 20]
    ELSE IF severity > MidSeverity THEN [approve |-> 20, conditional |-> 15]
    ELSE [approve |-> 15, conditional |-> 10]

\* _get_judgment_thresholds, in tenths of a point.
get_judgment_thresholds(severity) ==
    IF severity >= HighSeverity THEN [approve |-> 30, conditional |-> 20]
    ELSE IF severity >= MidSeverity THEN [approve |-> 20, conditional |-> 15]
    ELSE [approve |-> 15, conditional |-> 10]

SeverityLevel(severity) ==
    IF severity >= HighSeverity THEN "HIGH"
    ELSE IF severity >= MidSeverity THEN "MID" ELSE "LOW"

\* decision_scores with a partial approval weighted like an approval.
decision_scores_partial_full(decision) ==
    CASE decision = Approve -> 10
      [] decision = PartialApprove -> 10
      [] OTHER -> 0

\* decision_scores.get(decision, 0.0), in tenths of a point.
decision_scores(decision) ==
    CASE decision = Approve -> 10
      [] decision = PartialApprove -> 5
      [] OTHER -> 0

RECURSIVE TotalScore(_)
TotalScore(responses) ==
    IF responses = << >> THEN 0
    ELSE LET r == Head(responses)
         IN (IF Counted(r) THEN decision_scores(Get(r.response, "decision", Reject)) ELSE 0)
            + TotalScore(Tail(responses))

Judgment(result, reasoning, level, total) ==
    [result |-> result, reasoning |-> reasoning, severity_level |-> level, total_score |-> total]

\* HardFlagged with the test for "privacy" left out.
HardFlagged_no_privacy(hard_flags) ==
    \/ SeqContains(hard_flags, JStr("compliance"))
    \/ SeqContains(hard_flags, JStr("security"))

\* Whether the hard-flag list triggers the automatic rejection.
HardFlagged(hard_flags) ==
    \/ SeqContains(hard_flags, JStr("compliance"))
    \/ SeqContains(hard_flags, JStr("security"))
    \/ SeqContains(hard_flags, JStr("privacy"))

\* _determine_final_decision with the approval tested against the conditional
\* threshold.
determine_final_decision_conditional_approves(responses, final_severity, hard_flags) ==
    IF HardFlagged(hard_flags)
    THEN Judgment(Reject,
                  [kind |-> "hard_flag", flags |-> {hard_flags[i] : i \in 1..Len(hard_flags)}],
                  SeverityLevel(final_severity), 0)
    ELSE LET total_score == TotalScore(responses)
             thresholds == get_judgment_thresholds(final_severity)
             severity_level == SeverityLevel(final_severity)
         IN IF total_score >= thresholds.conditional
            THEN Judgment(Approve,
                   [kind |-> "score", total |-> total_score, of |-> thresholds.approve],
                   severity_level, total_score)
            ELSE Judgment(Reject,
                   [kind |-> "below", total |-> total_score, of |-> thresholds.conditional],
                   severity_level, total_score)

\* _determine_final_decision.
determine_final_decision(responses, final_severity, hard_flags) ==
    IF HardFlagged(hard_flags)
    THEN Judgment(Reject,
                  [kind |-> "hard_flag", flags |-> {hard_flags[i] : i \in 1..Len(hard_flags)}],
                  SeverityLevel(final_severity), 0)
    ELSE LET total_score == TotalScore(responses)
             thresholds == get_judgment_thresholds(final_severity)
             severity_level == SeverityLevel(final_severity)
         IN IF total_score >= thresholds.approve
            THEN Judgment(Approve,
                   [kind |-> "score", total |-> total_score, of |-> thresholds.approve],
                   severity_level, total_score)
            ELSE IF total_score >= thresholds.conditional
            THEN Judgment(ConditionalApprove,
                   [kind |-> "score", total |-> total_score, of |-> thresholds.approve],
                   severity_level, total_score)
            ELSE Judgment(Reject,
                   [kind |-> "below", total |-> total_score, of |-> thresholds.conditional],
                   severity_level, total_score)

\* generate_conditional_reasoning, its first loop: the concerns of the
\* responses whose decision is the partial approval or the rejection.
RECURSIVE collect_concerns(_)
collect_concerns(responses) ==
    IF responses = << >> THEN << >>
    ELSE LET r == Head(responses)
             decision == Get(r.response, "decision", JStr(""))
             concerns == Get(r.response, "concerns", JList(<< >>))
         IN (IF decision \in {PartialApprove, Reject} /\ Truthy(concerns)
             THEN concerns.list ELSE << >>)
            \o collect_concerns(Tail(responses))

\* Its second loop: the distinct concerns in order of first appearance, the
\* loop left once three have been kept.
RECURSIVE unique_concerns(_, _)
unique_concerns(all_concerns, unique) ==
    IF all_concerns = << >> \/ Len(unique) >= 3 THEN unique
    ELSE unique_concerns(Tail(all_concerns),
                         IF SeqContains(unique, Head(all_concerns)) THEN unique
                         ELSE Append(unique, Head(all_concerns)))

\* The sentence that stands for the concerns when none was gathered.
EvaluationPending == JStr("evaluation pending")

\* generate_conditional_reasoning (for responses that carry an opinion): the
\* base sentence and the concern sentence.  No function of the program calls
\* it.
generate_conditional_reasoning(responses, score, judgment_severity, risk_level) ==
    LET unique == unique_concerns(collect_concerns(responses), << >>)
    IN [kind |-> "conditional", total |-> score, severity |-> judgment_severity,
        risk_level |-> risk_level,
        concerns |-> IF unique # << >> THEN JList(unique) ELSE EvaluationPending]

RECURSIVE CountNotApplicable(_)
CountNotApplicable(responses) ==
    IF responses = << >> THEN 0
    ELSE LET r == Head(responses)
         IN (IF Counted(r) /\ Get(r.response, "decision", NoneVal) = NotApplicable THEN 1 ELSE 0)
            + CountNotApplicable(Tail(responses))

\* calculate_final_result with the hard-flag rejection ahead of the
\* NOT_APPLICABLE step.
calculate_final_result_flags_first(responses, judgment_severity, hard_flags) ==
    IF HardFlagged(hard_flags)
    THEN determine_final_decision(responses, judgment_severity, hard_flags)
    ELSE IF CountNotApplicable(responses) >= NotApplicableQuorum
    THEN Judgment(NotApplicable, [kind |-> "not_applicable"], "NONE", 0)
    ELSE determine_final_decision(responses, judgment_severity, hard_flags)

\* calculate_final_result: the NOT_APPLICABLE step, then the decision.
calculate_final_result(responses, judgment_severity, hard_flags) ==
    IF CountNotApplicable(responses) >= NotApplicableQuorum
    THEN Judgment(NotApplicable, [kind |-> "not_applicable"], "NONE", 0)
    ELSE determine_final_decision(responses, judgment_severity, hard_flags)

RECURSIVE CountSuccess(_)
CountSuccess(responses) ==
    IF responses = << >> THEN 0
    ELSE (IF Head(responses).success THEN 1 ELSE 0) + CountSuccess(Tail(responses))


\* ------------------------------------------------------- judge environment
\* What an external judge may do in one call: return output (json is the
\* value extract_json_from_markdown recovers from it, stderr whether it wrote
\* to stderr), run into the timeout, or fail inside the call (spawn error,
\* decode error).
RawScores ==
    [validity |-> JNum(120), feasibility |-> JNum(70), risk |-> JNum(60), certainty |-> JNum(90)]

RawOpinion(decision, severity, hard_flag) ==
    [scores |-> RawScores, decision |-> decision, severity |-> JNum(severity),
     reason |-> JStr("reason"), hard_flag |-> hard_flag]

\* An object without the required key "severity".
MissingKeyObj ==
    [scores |-> RawScores, decision |-> Approve, reason |-> JStr("reason")]

SevPoints == <<30, 90, 40, 150, 50, 80, 79, 49, 0, 100, -5>>
Severities == {SevPoints[k] : k \in 1..NumSevPoints}

Output(json, stderr) == [kind |-> "output", json |-> json, stderr |-> stderr]
TimedOut == [kind |-> "timeout"]
CallFailed == [kind |-> "error"]

\* The outputs explored by the dispatch specification.
DispatchOutputs ==
    {Output(NoneVal, e) : e \in BOOLEAN}
    \cup {Output(EmptyObj, FALSE), Output(MissingKeyObj, FALSE)}
    \cup {Output(RawOpinion(d, v, f), FALSE) :
            d \in {Approve, NotApplicable}, v \in {30, 90},
            f \in {JStr("none"), JStr("security")}}
    \cup {TimedOut, CallFailed}

\* The outputs explored by the aggregation specification.
\* Every decision with every sample severity and no flag, and every decision
\* with every flag at the first sample severity.
PanelOutputs ==
    {Output(NoneVal, FALSE), Output(EmptyObj, FALSE)}
    \cup {Output(RawOpinion(d, v, JStr("none")), FALSE) :
            d \in ValidDecisions, v \in Severities}
    \cup {Output(RawOpinion(d, SevPoints[1], f), FALSE) :
            d \in ValidDecisions, f \in ValidHardFlags}

\* ------------------------------------------------------------------- state
VARIABLES
    flow,       \* the caller: "judge_issue" (no callback) or "stream" (callback)
    nodes,      \* the configured nodes, << >> when the AI_CONFIGS fallback is used
    task,       \* per judge: "pending", "running", "returned" or "raised"
    call,       \* per judge's call: "idle", "inflight", "completed", "cancelled", "failed"
    output,     \* per judge: what the external judge did (NoneVal until it settles)
    taskValue,  \* per judge: the task's result dictionary or exception
    settled,    \* the judges in the order in which they settled
    callbacks,  \* the on_ai_complete invocations so far, in order
    dispatch,   \* run_parallel_judgment: gathering, returned or raised
    verdict,    \* the caller's outcome: none yet, a verdict or an error
    stream,     \* the SSE flow's event queue, its put tasks and its consumer
    validation, \* one object on its way through validate_ai_response
    recovery    \* one text on its way through extract_json_from_markdown

vars == <<flow, nodes, task, call, output, taskValue, settled, callbacks, dispatch, verdict,
          stream, validation, recovery>>

\* The variables of the dispatch and of its callers.
panel == <<flow, nodes, task, call, output, taskValue, settled, callbacks, dispatch, verdict,
           stream>>

\* No object is being validated, no text being recovered.
Idle == [st |-> "idle"]

\* Whether the caller passes on_ai_complete.
HasCallback(f) == f = "stream"

Gathering == [st |-> "gathering"]
NoVerdict == [st |-> "none"]

\* ------------------------------------------------ the SSE flow's event queue
\* event_generator: the put tasks that on_ai_complete has created and that
\* have not run yet (pending, in the order of their creation: the event loop
\* runs them in that order), the events in event_queue (queue), every event
\* put so far (put), the events the consumer has yielded (delivered), and
\* whether the consumer has left its loop (ended).
NoStream ==
    [pending |-> << >>, queue |-> << >>, put |-> << >>, delivered |-> << >>, ended |-> FALSE]

\* The end-of-stream sentinel: event_queue.put(None).
Sentinel == NoneVal

\* str.lower() for the judge names of the model.
Lower(name) ==
    CASE name = "Claude" -> "claude" [] name = "Gemini" -> "gemini"
      [] name = "ChatGPT" -> "chatgpt"
      [] name = "NODE 1" -> "node 1" [] name = "NODE 2" -> "node 2"
      [] name = "NODE 3" -> "node 3"
      [] OTHER -> name

\* on_ai_complete: the event for one invocation, the name in lower case.
ai_complete_event(cb) ==
    [type |-> "ai_complete", ai |-> Lower(cb.ai), result |-> cb.result]

\* on_ai_complete is invoked for each of cbs: asyncio.create_task schedules
\* one put task per invocation.
create_put_tasks(s, cbs) ==
    [s EXCEPT !.pending = @ \o [k \in 1..Len(cbs) |-> ai_complete_event(cbs[k])]]

\* event_queue.put(event): the queue is unbounded, the put never waits.
queue_put(s, event) ==
    [s EXCEPT !.queue = Append(@, event), !.put = Append(@, event)]

\* The put tasks that are scheduled all run, in order.
RECURSIVE run_put_tasks(_)
run_put_tasks(s) ==
    IF s.pending = << >> THEN s
    ELSE run_put_tasks(queue_put([s EXCEPT !.pending = Tail(@)], Head(s.pending)))

\* run_judgment's last puts: the terminal event (final_result, or error if
\* an exception was caught) and the sentinel.
terminal_event(v) ==
    IF v.st = "error" THEN [type |-> "error", error |-> v.error]
    ELSE [type |-> "final_result", result |-> v.result]
put_terminal(s, v) == queue_put(queue_put(s, terminal_event(v)), Sentinel)

Init ==
    /\ flow \in {"judge_issue", "stream"}
    /\ nodes \in {DefaultNodes, << >>}
    /\ task = [i \in Judges |-> "pending"]
    /\ call = [i \in Judges |-> "idle"]
    /\ output = [i \in Judges |-> NoneVal]
    /\ taskValue = [i \in Judges |-> NoneVal]
    /\ settled = << >>
    /\ callbacks = << >>
    /\ dispatch = Gathering
    /\ verdict = NoVerdict
    /\ stream = NoStream
    /\ validation = Idle
    /\ recovery = Idle

\* ------------------------------------------- run_parallel_judgment: tasks
\* The call of judge i, given what the external judge does.
JudgeCall(nds, i, out) ==
    IF nds # << >>
    THEN [ai |-> nds[i].name] @@ call_ai(nds[i].engine, out)
    ELSE call_ai_async(AI_CONFIGS[i].name, out)

\* The callback list after judge i's task returned result.
on_return(f, cbs, result) ==
    IF HasCallback(f) THEN Append(cbs, [ai |-> result.ai, result |-> result]) ELSE cbs

\* execute_with_callback up to its await: the prompt is built and the call
\* is issued.
StartCall(i) ==
    /\ dispatch.st = "gathering"
    /\ task[i] = "pending"
    /\ task' = [task EXCEPT ![i] = "running"]
    /\ call' = [call EXCEPT ![i] = "inflight"]
    /\ UNCHANGED <<flow, nodes, output, taskValue, settled, callbacks, dispatch, verdict,
                   stream>>
    /\ UNCHANGED <<validation, recovery>>

\* execute_with_callback raises before any call is in flight: create_ai_prompt
\* raises ValueError (prompt over the token limit) or call_ai raises for an
\* unknown engine.
TaskRaises(i) ==
    /\ dispatch.st = "gathering"
    /\ task[i] = "pending"
    /\ task' = [task EXCEPT ![i] = "raised"]
    /\ taskValue' = [taskValue EXCEPT ![i] = Exception("ValueError", "task error")]
    /\ settled' = Append(settled, i)
    /\ UNCHANGED <<flow, nodes, call, output, callbacks, dispatch, verdict, stream>>
    /\ UNCHANGED <<validation, recovery>>

\* A timeout that cancels every call in flight.
cancel_all_on_timeout(calls, i) ==
    [j \in DOMAIN calls |-> IF calls[j] = "inflight" THEN "cancelled" ELSE calls[j]]

\* What a timeout does to the calls: wait_for cancels the awaited call of
\* judge i alone.
cancel_on_timeout(calls, i) == [calls EXCEPT ![i] = "cancelled"]

\* The call of judge i settles: execute_with_callback resumes, stores the
\* result and invokes the callback before returning.
CallSettles(i, out) ==
    /\ dispatch.st = "gathering"
    /\ task[i] = "running"
    /\ call[i] = "inflight"
    /\ LET result == JudgeCall(nodes, i, out)
       IN /\ taskValue' = [taskValue EXCEPT ![i] = result]
          /\ callbacks' = on_return(flow, callbacks, result)
          /\ stream' = create_put_tasks(stream, on_return(flow, << >>, result))
    /\ call' = CASE out.kind = "timeout" -> cancel_on_timeout(call, i)
                 [] out.kind = "error" -> [call EXCEPT ![i] = "failed"]
                 [] OTHER -> [call EXCEPT ![i] = "completed"]
    /\ output' = [output EXCEPT ![i] = out]
    /\ task' = [task EXCEPT ![i] = "returned"]
    /\ settled' = Append(settled, i)
    /\ UNCHANGED <<flow, nodes, dispatch, verdict>>
    /\ UNCHANGED <<validation, recovery>>


\* ------------------------------------------ run_parallel_judgment: the end
AllSettled == \A i \in Judges : task[i] \in {"returned", "raised"}

\* Results collected in completion order instead of submission order.
gather_in_completion_order(values) == [k \in 1..NumJudges |-> values[settled[k]]]

\* asyncio.gather(*tasks, return_exceptions=True): one entry per task in
\* submission order, an exception standing for the task that raised it.
gather(values) == [i \in 1..NumJudges |-> values[i]]

\* The error result that replaces the exception of judge i.
error_result(nds, i, e) ==
    [ai |-> ConfiguredName(nds, i), success |-> FALSE, response |-> NoneVal,
     error |-> JStr(e.msg)]

\* A loop in which one exception fails every entry.
process_results_abort_all(nds, results) ==
    IF \E k \in 1..Len(results) : IsException(results[k])
    THEN LET e == results[CHOOSE k \in 1..Len(results) : IsException(results[k])]
         IN [i \in 1..Len(results) |-> error_result(nds, i, e)]
    ELSE results

\* The loop over the gathered results: processed_results.
process_results(nds, results) ==
    [i \in 1..Len(results) |->
        IF IsException(results[i]) THEN error_result(nds, i, results[i]) ELSE results[i]]

\* A loop that makes no callback for the entries that are exceptions.
error_callbacks_none(f, nds, results, i) == << >>

\* The callbacks the same loop makes, for the entries that are exceptions.
RECURSIVE error_callbacks(_, _, _, _)
error_callbacks(f, nds, results, i) ==
    IF i > Len(results) THEN << >>
    ELSE (IF IsException(results[i]) /\ HasCallback(f)
          THEN << [ai |-> ConfiguredName(nds, i), result |-> error_result(nds, i, results[i])] >>
          ELSE << >>)
         \o error_callbacks(f, nds, results, i + 1)

QuorumError == Exception("ValueError", "At least 2 AIs must respond")

\* The check of the successful count off by one.
finish_dispatch_off_by_one(processed_results) ==
    IF CountSuccess(processed_results) <= MinSuccessful
    THEN [st |-> "raised", error |-> QuorumError, results |-> processed_results]
    ELSE [st |-> "returned", error |-> NoneVal, results |-> processed_results]

\* The end of run_parallel_judgment: the check of the successful count.
finish_dispatch(processed_results) ==
    IF CountSuccess(processed_results) < MinSuccessful
    THEN [st |-> "raised", error |-> QuorumError, results |-> processed_results]
    ELSE [st |-> "returned", error |-> NoneVal, results |-> processed_results]

\* All tasks have settled: gather returns and run_parallel_judgment runs to
\* its end.  The event loop runs what was scheduled first first, so the put
\* tasks created so far have run when run_parallel_judgment resumes; the put
\* tasks of the callbacks it makes now are scheduled behind it.
GatherDone ==
    /\ dispatch.st = "gathering"
    /\ AllSettled
    /\ LET results == gather(taskValue)
       IN /\ callbacks' = callbacks \o error_callbacks(flow, nodes, results, 1)
          /\ stream' = create_put_tasks(run_put_tasks(stream),
                                        error_callbacks(flow, nodes, results, 1))
          /\ dispatch' = finish_dispatch(process_results(nodes, results))
    /\ UNCHANGED <<flow, nodes, task, call, output, taskValue, settled, verdict>>
    /\ UNCHANGED <<validation, recovery>>

\* ---------------------------------------------------------------- callers
Failed(e) == [st |-> "error", error |-> e]

Verdict(j, judgment_severity, hard_flags) ==
    [st |-> "verdict", result |-> j.result, reasoning |-> j.reasoning,
     severity_level |-> j.severity_level, total_score |-> j.total_score,
     judgment_severity |-> judgment_severity, hard_flags |-> hard_flags]

\* The diagnostics of judge_issue's own quorum error: "name: error" per judge.
ErrorDetails(responses) ==
    [i \in 1..Len(responses) |-> [ai |-> responses[i].ai, error |-> responses[i].error]]

\* Whether r["response"]["severity"] can be read for every successful result.
SeveritiesReadable(responses) ==
    \A i \in 1..Len(responses) :
        responses[i].success =>
            IsDict(responses[i].response) /\ "severity" \in DOMAIN responses[i].response

\* AIResponseModel built from a result that carries a validated opinion.
AIResponseModel(r) ==
    [scores |-> r.response["scores"], average_score |-> r.response["average_score"],
     decision |-> r.response["decision"], severity |-> r.response["severity"],
     reason |-> r.response["reason"],
     concerns |-> Get(r.response, "concerns", JList(<< >>)),
     hard_flag |-> Get(r.response, "hard_flag", JStr("none"))]

\* Step 6 of judge_issue and the lookup of step 8: ai_response_models is
\* keyed by the lower-cased name each result carries (a later result
\* overwrites an earlier one of the same name), and .get(key) is None for a
\* key no result carries.
ai_response_models_get(responses, key) ==
    LET named == {i \in 1..Len(responses) : Lower(responses[i].ai) = key}
    IN IF named = {} THEN NoneVal
       ELSE LET i == CHOOSE j \in named : \A k \in named : k <= j
            IN IF Counted(responses[i]) THEN AIResponseModel(responses[i]) ELSE NoneVal

\* The per-judge slots of the JudgmentModel.
JudgeSlots(responses) ==
    [claude |-> ai_response_models_get(responses, "claude"),
     gemini |-> ai_response_models_get(responses, "gemini"),
     chatgpt |-> ai_response_models_get(responses, "chatgpt")]

\* severity_judge.judge_issue after run_parallel_judgment returned responses.
judge_issue(responses) ==
    IF CountSuccess(responses) < MinSuccessful
    THEN Failed([exc |-> "ValueError", msg |-> "insufficient successful responses",
                 details |-> ErrorDetails(responses)])
    ELSE IF ~SeveritiesReadable(responses)
    THEN Failed(Exception("KeyError", "severity"))
    ELSE LET judgment_severity == compute_final_severity(responses)
             hard_flags == check_hard_flags(responses)
         IN Verdict(calculate_final_result(responses, judgment_severity, hard_flags),
                    judgment_severity, hard_flags)
            @@ JudgeSlots(responses)

\* app.judge_stream_endpoint's run_judgment after run_parallel_judgment
\* returned responses.
run_judgment(responses) ==
    LET judgment_severity == compute_final_severity(responses)
        hard_flags == check_hard_flags(responses)
    IN Verdict(calculate_final_result(responses, judgment_severity, hard_flags),
               judgment_severity, hard_flags)

\* judge_issue resumes after the dispatch; an exception of the dispatch
\* propagates.
JudgeIssueResumes ==
    /\ flow = "judge_issue"
    /\ dispatch.st # "gathering"
    /\ verdict = NoVerdict
    /\ verdict' = IF dispatch.st = "raised" THEN Failed(dispatch.error)
                  ELSE judge_issue(dispatch.results)
    /\ UNCHANGED <<flow, nodes, task, call, output, taskValue, settled, callbacks, dispatch,
                   stream>>
    /\ UNCHANGED <<validation, recovery>>

\* run_judgment resumes after the dispatch, in the same step of the event
\* loop in which run_parallel_judgment ended; an exception of the dispatch is
\* caught and becomes the error event.  It puts the terminal event and the
\* sentinel without waiting.
RunJudgmentResumes ==
    /\ flow = "stream"
    /\ dispatch.st # "gathering"
    /\ verdict = NoVerdict
    /\ verdict' = IF dispatch.st = "raised" THEN Failed(dispatch.error)
                  ELSE run_judgment(dispatch.results)
    /\ stream' = put_terminal(stream, verdict')
    /\ UNCHANGED <<flow, nodes, task, call, output, taskValue, settled, callbacks, dispatch>>
    /\ UNCHANGED <<validation, recovery>>

\* The event loop runs the put task that was scheduled first.  Between the
\* end of run_parallel_judgment and run_judgment's last put no other task
\* runs.
PutRuns ==
    /\ flow = "stream"
    /\ stream.pending # << >>
    /\ dispatch.st = "gathering" \/ verdict # NoVerdict
    /\ stream' = queue_put([stream EXCEPT !.pending = Tail(@)], Head(stream.pending))
    /\ UNCHANGED <<flow, nodes, task, call, output, taskValue, settled, callbacks, dispatch,
                   verdict>>
    /\ UNCHANGED <<validation, recovery>>

\* The consumer takes the next event from the queue: it yields the event,
\* or leaves its loop at the sentinel.
Deliver ==
    /\ flow = "stream"
    /\ ~stream.ended
    /\ stream.queue # << >>
    /\ stream' = IF Head(stream.queue) = Sentinel
                 THEN [stream EXCEPT !.queue = Tail(@), !.ended = TRUE]
                 ELSE [stream EXCEPT !.queue = Tail(@),
                                     !.delivered = Append(@, Head(stream.queue))]
    /\ UNCHANGED <<flow, nodes, task, call, output, taskValue, settled, callbacks, dispatch,
                   verdict>>
    /\ UNCHANGED <<validation, recovery>>

\* ----------------------------------------------------------- specifications
Next ==
    \/ \E i \in Judges : StartCall(i)
    \/ \E i \in Judges : TaskRaises(i)
    \/ \E i \in Judges, out \in DispatchOutputs : CallSettles(i, out)
    \/ GatherDone
    \/ JudgeIssueResumes
    \/ RunJudgmentResumes

Spec == Init /\ [][Next]_vars

\* The stream specification: the SSE flow with its event queue, the put
\* tasks and the consumer; a judge succeeds, prints no object or times out.
StreamOutputs ==
    {Output(RawOpinion(Approve, 30, JStr("none")), FALSE), Output(NoneVal, FALSE), TimedOut}

InitStream ==
    /\ flow = "stream"
    /\ nodes \in {DefaultNodes, << >>}
    /\ task = [i \in Judges |-> "pending"]
    /\ call = [i \in Judges |-> "idle"]
    /\ output = [i \in Judges |-> NoneVal]
    /\ taskValue = [i \in Judges |-> NoneVal]
    /\ settled = << >>
    /\ callbacks = << >>
    /\ dispatch = Gathering
    /\ verdict = NoVerdict
    /\ stream = NoStream
    /\ validation = Idle
    /\ recovery = Idle

NextStream ==
    \/ \E i \in Judges : StartCall(i)
    \/ \E i \in Judges : TaskRaises(i)
    \/ \E i \in Judges, out \in StreamOutputs : CallSettles(i, out)
    \/ GatherDone
    \/ RunJudgmentResumes
    \/ PutRuns
    \/ Deliver

SpecStream == InitStream /\ [][NextStream]_vars

\* The aggregation specification: the state in which run_parallel_judgment
\* has just finished for a panel of three settled calls, the opinions drawn
\* from the wider set PanelOutputs; its steps are the two callers.
PanelResults(nds, outs) == [i \in 1..NumJudges |-> JudgeCall(nds, i, outs[i])]

RECURSIVE CallbacksOf(_, _, _)
CallbacksOf(f, results, i) ==
    IF i > Len(results) THEN << >>
    ELSE on_return(f, << >>, results[i]) \o CallbacksOf(f, results, i + 1)

InitAgg ==
    /\ flow \in {"judge_issue", "stream"}
    /\ nodes = DefaultNodes
    /\ task = [i \in Judges |-> "returned"]
    /\ call = [i \in Judges |-> "completed"]
    /\ output \in [Judges -> PanelOutputs]
    /\ taskValue = PanelResults(nodes, output)
    /\ settled = <<1, 2, 3>>
    /\ callbacks = CallbacksOf(flow, taskValue, 1)
    /\ dispatch = finish_dispatch(process_results(nodes, gather(taskValue)))
    /\ verdict = NoVerdict
    /\ stream = run_put_tasks(create_put_tasks(NoStream, callbacks))
    /\ validation = Idle
    /\ recovery = Idle

NextAgg ==
    \/ JudgeIssueResumes
    \/ RunJudgmentResumes

SpecAgg == InitAgg /\ [][NextAgg]_vars

\* The tier specification: as the aggregation specification, the opinions
\* carrying no flag and the severities on both sides of the tier boundaries.
TierPoints == {49, 50, 60, 79, 80, 85}

TierOutputs ==
    {Output(NoneVal, FALSE)}
    \cup {Output(RawOpinion(d, v, JStr("none")), FALSE) :
            d \in ValidDecisions, v \in TierPoints}

InitTier ==
    /\ flow \in {"judge_issue", "stream"}
    /\ nodes = DefaultNodes
    /\ task = [i \in Judges |-> "returned"]
    /\ call = [i \in Judges |-> "completed"]
    /\ output \in [Judges -> TierOutputs]
    /\ taskValue = PanelResults(nodes, output)
    /\ settled = <<1, 2, 3>>
    /\ callbacks = CallbacksOf(flow, taskValue, 1)
    /\ dispatch = finish_dispatch(process_results(nodes, gather(taskValue)))
    /\ verdict = NoVerdict
    /\ stream = run_put_tasks(create_put_tasks(NoStream, callbacks))
    /\ validation = Idle
    /\ recovery = Idle

SpecTier == InitTier /\ [][NextAgg]_vars


\* ------------------------------------------- the validator specification
\* The objects a judge may print, field by field: legal values, values out of
\* range, values of the wrong type, and absent keys.
Absent == [absent |-> TRUE]
Field(k, v) == IF v = Absent THEN << >> ELSE k :> v

RequiredScoreSet == {required_scores[i] : i \in 1..Len(required_scores)}

SampleScores ==
    { RawScores,
      [RawScores EXCEPT !.validity = JStr("0.5")],
      [RawScores EXCEPT !.validity = JStr("abc")],
      [RawScores EXCEPT !.validity = JNum(-30)],
      [RawScores EXCEPT !.risk = NoneVal],
      [k \in RequiredScoreSet \ {"certainty"} |-> RawScores[k]],
      RawScores @@ ("overall" :> JNum(500)),
      RawScores @@ ("note" :> JStr("abc")),
      NoneVal,
      JList(<<JStr("validity"), JStr("feasibility"), JStr("risk"), JStr("certainty")>>),
      Absent }
SampleDecisions == {Approve, NotApplicable, ConditionalApprove, JStr("maybe"), NoneVal, Absent}
SampleSeverities ==
    {JNum(60), JNum(150), JNum(-5), JFloat(607), JStr("60"), JStr("0.5"), NoneVal, JInf, Absent}
SampleFlags == {JStr("none"), JStr("security"), JStr("legal"), NoneVal, Absent}
SampleConcerns == {JList(<<JStr("concern")>>), JStr("concern"), Absent}
SampleAverages == {JNum(80), JNum(500), Absent}
SampleReasons == {JStr("reason"), Absent}

ValidatorInputs ==
    { Field("scores", sc) @@ Field("decision", d) @@ Field("severity", sv)
        @@ Field("reason", r) @@ Field("hard_flag", f) @@ Field("concerns", c)
        @@ Field("average_score", a) :
        sc \in SampleScores, d \in SampleDecisions, sv \in SampleSeverities,
        r \in SampleReasons, f \in SampleFlags, c \in SampleConcerns, a \in SampleAverages }

\* No judgment has been started.
PanelAtStart ==
    /\ flow = "judge_issue"
    /\ nodes = DefaultNodes
    /\ task = [i \in Judges |-> "pending"]
    /\ call = [i \in Judges |-> "idle"]
    /\ output = [i \in Judges |-> NoneVal]
    /\ taskValue = [i \in Judges |-> NoneVal]
    /\ settled = << >>
    /\ callbacks = << >>
    /\ dispatch = Gathering
    /\ verdict = NoVerdict
    /\ stream = NoStream

InitVal ==
    /\ PanelAtStart
    /\ validation \in {[st |-> "input", input |-> x] : x \in ValidatorInputs}
    /\ recovery = Idle

\* validate_ai_response is applied to the object.
Validate ==
    /\ validation.st = "input"
    /\ validation' = [st |-> "validated", input |-> validation.input,
                      first |-> validate_ai_response(validation.input)]
    /\ UNCHANGED <<panel, recovery>>

\* validate_ai_response is applied to the sanitized object it returned.
Revalidate ==
    /\ validation.st = "validated"
    /\ ~Raised(validation.first)
    /\ validation.first.is_valid
    /\ validation' = [st |-> "revalidated", input |-> validation.input,
                      first |-> validation.first,
                      second |-> validate_ai_response(validation.first.sanitized)]
    /\ UNCHANGED <<panel, recovery>>

\* The first configured judge is called and prints the object.
CallJudge ==
    /\ validation.st = "input"
    /\ validation' = [st |-> "called", input |-> validation.input,
                      result |-> JudgeCall(nodes, 1, Output(validation.input, FALSE))]
    /\ UNCHANGED <<panel, recovery>>

NextVal ==
    \/ Validate
    \/ Revalidate
    \/ CallJudge

SpecVal == InitVal /\ [][NextVal]_vars


\* ------------------------------------------- the recoverer specification
\* The pieces a judge's text is made of: prose, raw objects (well-formed,
\* malformed, well-formed inside a malformed one, with a key that lacks its
\* opening quote, never closed), stray
\* quotes and backslashes, unlabelled fenced blocks, and fenced blocks
\* labelled json, which carry the value their content spells.
Segment(kind, toks) == [kind |-> kind, toks |-> toks]
JsonBlock(toks, value) == [kind |-> "json_block", toks |-> toks, value |-> value]

JsonBlocks ==
    { JsonBlock(<<"TICKS", "JSON", "NL", "LB", "QT", "KA", "RB", "NL", "TICKS", "NL">>,
                "a" :> JNum(1)),
      JsonBlock(<<"TICKS", "JSON", "NL", "NL", "LB", "NL", "QT", "KA", "NL", "RB", "NL", "TICKS">>,
                "a" :> JNum(1)),
      JsonBlock(<<"TICKS", "JSON", "NL", "LB", "QT", "LB", "KA", "RB", "NL", "TICKS", "NL">>,
                "{a" :> JNum(1)),
      JsonBlock(<<"TICKS", "JSON", "NL", "LB", "RB", "NL", "TICKS", "NL">>, EmptyObj) }

Segments ==
    JsonBlocks
    \cup { Segment("json_block_malformed",
                   <<"TICKS", "JSON", "NL", "LB", "W", "RB", "NL", "TICKS", "NL">>),
           Segment("plain_block", <<"TICKS", "NL", "LB", "QT", "KB", "RB", "NL", "TICKS", "NL">>),
           Segment("plain_block_prose", <<"TICKS", "NL", "W", "NL", "TICKS", "NL">>),
           Segment("raw_object", <<"LB", "QT", "KB", "RB", "NL">>),
           Segment("raw_malformed", <<"LB", "W", "RB", "NL">>),
           Segment("raw_nested", <<"LB", "W", "LB", "QT", "KB", "RB", "RB", "NL">>),
           Segment("raw_unquoted", <<"LB", "NL", "KB", "RB", "NL">>),
           Segment("raw_open", <<"LB", "NL">>),
           Segment("prose", <<"W", "NL">>),
           Segment("word", <<"W">>),
           Segment("quote", <<"QT">>),
           Segment("backslash", <<"BS">>) }

RecoveryTexts == UNION {[1..n -> Segments] : n \in 1..MaxSegments}

\* The text the segments spell.
RECURSIVE TextOf(_)
TextOf(segs) == IF segs = << >> THEN << >> ELSE Head(segs).toks \o TextOf(Tail(segs))

InitRec ==
    /\ PanelAtStart
    /\ validation = Idle
    /\ recovery \in {[st |-> "text", segs |-> q] : q \in RecoveryTexts}

\* extract_json_from_markdown is applied to the text.
Extract ==
    /\ recovery.st = "text"
    /\ recovery' = [st |-> "extracted", segs |-> recovery.segs,
                    result |-> extract_json_from_markdown(TextOf(recovery.segs))]
    /\ UNCHANGED <<panel, validation>>

NextRec == Extract

SpecRec == InitRec /\ [][NextRec]_vars


\* ------------------------------------------- the call-on-text specification
\* The pieces of the output of a judge that answers with opinions: opinions
\* (approving, rejecting, not applicable; each carries the object its text
\* spells), the echo of a persona, a bare score object, an opinion in a
\* fenced block labelled json, a line of prose, a newline, a malformed
\* object, an opening brace that is never closed, a stray quote and a stray
\* backslash.
OpinionValue(tail) == ("scores" :> ScoreMembers) @@ TailMembers(tail)
OpinionText(tail) == <<"LB", "SC", "LB", "SV", "RB", tail, "RB">>
Opinion(kind, tail) ==
    [kind |-> kind, toks |-> OpinionText(tail), value |-> OpinionValue(tail)]
ProseLine == [i \in 1..17 |-> IF i = 17 THEN "NL" ELSE "W"]

CallSegments ==
    { Opinion("opinion", "DA"),
      Opinion("opinion", "DR"),
      Opinion("not_applicable", "DN"),
      [kind |-> "persona", toks |-> <<"LB", "PN", "RB">>, value |-> PersonaMember],
      [kind |-> "scores_only", toks |-> <<"LB", "SV", "RB">>, value |-> ScoreMembers],
      [kind |-> "fenced_opinion",
       toks |-> <<"TICKS", "JSON", "NL">> \o OpinionText("DA") \o <<"NL", "TICKS", "NL">>,
       value |-> OpinionValue("DA")],
      Segment("prose_line", ProseLine),
      Segment("newline", <<"NL">>),
      Segment("raw_malformed", <<"LB", "W", "RB", "NL">>),
      Segment("raw_open", <<"LB", "NL">>),
      Segment("quote", <<"QT">>),
      Segment("backslash", <<"BS">>) }

CallTexts == UNION {[1..n -> CallSegments] : n \in 1..MaxCallSegments}

InitCall ==
    /\ PanelAtStart
    /\ validation = Idle
    /\ recovery \in {[st |-> "text", segs |-> q] : q \in CallTexts}

\* The engines whose call reads the judge's text with the recoverer alone
\* and with the multi-candidate loop.
TextEngines == {"Claude", "ChatGPT"}

\* A judge's call returns on the text as the subprocess's output, with or
\* without text on its error stream.
CallOnText ==
    /\ recovery.st = "text"
    /\ \E engine \in TextEngines, stderr \in BOOLEAN :
          recovery' = [st |-> "called", segs |-> recovery.segs, engine |-> engine,
                       stderr |-> stderr,
                       result |-> call_cli_text(engine, TextOf(recovery.segs), stderr)]
    /\ UNCHANGED <<panel, validation>>

NextCall == CallOnText

SpecCall == InitCall /\ [][NextCall]_vars


\* ---------------------------------------------- the scanning specification
\* The loops of the recoverer and of the multi-candidate selection, iteration
\* by iteration, on every text of up to MaxScanLen of these tokens: braces
\* that need not balance, quotes that need not close, backslashes anywhere.
ScanAlphabet == {"LB", "RB", "QT", "BS", "KB", "NL", "TICKS"}
ScanTexts == UNION {[1..n -> ScanAlphabet] : n \in 0..MaxScanLen}

\* What an iteration does is a function of the text and of the search
\* position.  The state carries the text together with these functions:
\* what extract_json_from_markdown does before its raw scan, what the
\* iteration of the raw scan does at each position of the repaired text, and
\* what the iteration of the multi-candidate loop finds at each position of
\* the stripped text (json.dumps writes at most one character more behind
\* each colon and comma, so a search position is at most twice the length of
\* the text).
Iterations(toks) ==
    [before_scan |-> before_scan(toks),
     raw_scan |-> [p \in 1..(Len(fix_missing_quotes(toks)) + 1) |->
                      raw_scan_step(fix_missing_quotes(toks), p)],
     select |-> [pos \in 0..(2 * TextLen(StripNewlines(toks))) |->
                      select_step(StripNewlines(toks), pos, << >>)]]

InitScan ==
    /\ PanelAtStart
    /\ validation = Idle
    /\ recovery \in {[st |-> "text", toks |-> t, does |-> Iterations(t)] : t \in ScanTexts}

ScanEnded(loop, toks, outcome) ==
    [st |-> "ended", loop |-> loop, toks |-> toks, outcome |-> outcome]

\* extract_json_from_markdown is called on the text: it returns at once for
\* an empty text or a fenced block that parses, and enters the outer loop of
\* the raw scan otherwise.
BeginExtract ==
    /\ recovery.st = "text"
    /\ recovery' =
         IF recovery.does.before_scan.done
         THEN ScanEnded("raw_scan", recovery.toks, recovery.does.before_scan.result)
         ELSE [st |-> "scanning", toks |-> recovery.toks, does |-> recovery.does,
               search_start |-> recovery.does.before_scan.search_start]
    /\ UNCHANGED <<panel, validation>>

\* One iteration of the outer loop of the raw scan.
ScanStep ==
    /\ recovery.st = "scanning"
    /\ LET step == recovery.does.raw_scan[recovery.search_start]
       IN recovery' =
            IF step.done THEN ScanEnded("raw_scan", recovery.toks, step.result)
            ELSE [recovery EXCEPT !.search_start = step.search_start]
    /\ UNCHANGED <<panel, validation>>

\* The ChatGPT/Codex branch enters its multi-candidate loop on the stripped
\* text.
BeginSelect ==
    /\ recovery.st = "text"
    /\ recovery' = [st |-> "selecting", toks |-> recovery.toks, does |-> recovery.does,
                    search_pos |-> 0, all_jsons |-> << >>]
    /\ UNCHANGED <<panel, validation>>

\* One iteration of the multi-candidate loop: the candidate it keeps, if
\* any, is appended to all_jsons.
SelectStep ==
    /\ recovery.st = "selecting"
    /\ LET step == recovery.does.select[recovery.search_pos]
           all_jsons == recovery.all_jsons \o step.all_jsons
       IN recovery' =
            IF step.done
            THEN ScanEnded("select", recovery.toks, SelectEnds(step.raised, all_jsons))
            ELSE [recovery EXCEPT !.search_pos = step.search_pos, !.all_jsons = all_jsons]
    /\ UNCHANGED <<panel, validation>>

NextScan ==
    \/ BeginExtract
    \/ ScanStep
    \/ BeginSelect
    \/ SelectStep

\* A loop that can make an iteration makes it: the interpreter runs on.
SpecScan == InitScan /\ [][NextScan]_vars /\ WF_vars(NextScan)


\* ------------------------------------------------------------------ claims
Results == dispatch.results
Finished == dispatch.st # "gathering"
HasVerdict == verdict.st = "verdict"

\* The judges whose result is successful and carries a structured opinion.
Opining == {i \in Judges : Results[i].success /\ Truthy(Results[i].response)}
SaidNotApplicable ==
    {i \in Opining : "decision" \in DOMAIN Results[i].response
                     /\ Results[i].response["decision"] = NotApplicable}
\* The judges whose result carries a veto flag.
Vetoing ==
    {i \in Judges : /\ Truthy(Results[i].response)
                    /\ "hard_flag" \in DOMAIN Results[i].response
                    /\ Results[i].response["hard_flag"]
                         \in {JStr("compliance"), JStr("security"), JStr("privacy")}}
SuccessfulJudges == {i \in Judges : Results[i].success}
ReportedSeverities ==
    {Results[i].response["severity"].num :
        i \in {j \in Opining : "severity" \in DOMAIN Results[j].response}}
SetMax(S) == CHOOSE m \in S : \A x \in S : x <= m

C2_QuorumIff ==
    verdict.st # "none" =>
        /\ HasVerdict <=> Cardinality(SuccessfulJudges) >= 2
        /\ Cardinality(SuccessfulJudges) < 2 => verdict = Failed(QuorumError)

ReturnedOK == {i \in Judges : task[i] = "returned" /\ taskValue[i].success}

CallbackCount(i) ==
    Cardinality({k \in 1..Len(callbacks) : callbacks[k].ai = ConfiguredName(nodes, i)})

\* C4: when a callback is passed, it is never invoked twice for a judge, and
\* once the dispatch has finished it has been invoked exactly once for every
\* judge, whatever the judge's outcome.
C4_CallbackExactlyOnce ==
    HasCallback(flow) =>
        \A i \in Judges :
            /\ CallbackCount(i) <= 1
            /\ Finished => CallbackCount(i) = 1

\* A finished dispatch with a callback in which one judge raised, one timed
\* out and one failed validation.
C4_Witness ==
    /\ HasCallback(flow)
    /\ Finished
    /\ \E i \in Judges : task[i] = "raised"
    /\ \E i \in Judges : call[i] = "cancelled"
    /\ \E i \in Judges : output[i] = Output(MissingKeyObj, FALSE)

\* C5: the callbacks are made in the order in which the judges settle: the
\* k-th invocation is for the k-th judge to settle.
C5_CallbacksInSettleOrder ==
    HasCallback(flow) =>
        /\ Len(callbacks) <= Len(settled)
        /\ \A k \in 1..Len(callbacks) :
              k <= Len(settled) => callbacks[k].ai = ConfiguredName(nodes, settled[k])

\* C6: once the dispatch has finished, the entry of a judge that raised is a
\* failure with no response and an error text, and the entry of every other
\* judge is the result of its own call, as determined by its own output.
C6_ExceptionIsolated ==
    Finished =>
        \A i \in Judges :
            /\ task[i] = "raised" =>
                  /\ Results[i].success = FALSE
                  /\ Results[i].response = NoneVal
                  /\ IsStr(Results[i].error)
            /\ task[i] = "returned" => Results[i] = JudgeCall(nodes, i, output[i])

\* A finished dispatch in which one judge raised and the other two succeeded.
C6_Witness ==
    /\ Finished
    /\ \E i \in Judges :
          /\ task[i] = "raised"
          /\ \A j \in Judges \ {i} : task[j] = "returned" /\ Results[j].success

\* C7: the list the dispatch ends with has one entry per configured judge and
\* entry i is the result of the i-th configured judge, whatever the order in
\* which the judges settled.
C7_SubmissionOrder ==
    Finished =>
        /\ Len(Results) = NumJudges
        /\ \A i \in Judges :
              /\ Results[i].ai = ConfiguredName(nodes, i)
              /\ task[i] = "returned" => Results[i] = taskValue[i]

\* The dispatch returned after the judges settled in the order 3, 2, 1.
C7_Witness == dispatch.st = "returned" /\ settled = <<3, 2, 1>>

\* C8: when the call of judge i runs into its timeout, only that call is
\* cancelled: the judge's result is a failure with the timeout tag and no
\* response, and no sibling's call, task or result changes in that step.
C8_TimeoutCancelsOnlyThatCall ==
    [][\A i \in Judges :
          (call[i] = "inflight" /\ call'[i] = "cancelled") =>
              /\ taskValue'[i] = [ai |-> ConfiguredName(nodes, i)] @@ FailureResult(TimeoutTag)
              /\ \A j \in Judges \ {i} :
                    call'[j] = call[j] /\ task'[j] = task[j] /\ taskValue'[j] = taskValue[j]
      ]_vars

\* A sibling completed successfully after another judge had timed out.
C8_Witness ==
    \E a, b \in 1..Len(settled) :
        /\ a < b
        /\ call[settled[a]] = "cancelled"
        /\ call[settled[b]] = "completed"
        /\ taskValue[settled[b]].success

DecisionOf(i) == Results[i].response["decision"]
Voting(d) == {i \in Opining : "decision" \in DOMAIN Results[i].response /\ DecisionOf(i) = d}
ShortCircuited == Cardinality(SaidNotApplicable) >= 2

\* C11: without veto and without the not-applicable short circuit, the tier
\* is HIGH from severity 80, MID from 50 and LOW below, and the verdict is
\* Approve from the tier's approve threshold (3.0, 2.0, 1.5), ConditionalApprove
\* from its conditional threshold (2.0, 1.5, 1.0) and Reject below it.
C11_TieredThresholds ==
    (HasVerdict /\ Vetoing = {} /\ ~ShortCircuited) =>
        LET s == verdict.judgment_severity
            t == verdict.total_score
            tier == IF s >= 80 THEN "HIGH" ELSE IF s >= 50 THEN "MID" ELSE "LOW"
            approve == CASE tier = "HIGH" -> 30 [] tier = "MID" -> 20 [] OTHER -> 15
            conditional == CASE tier = "HIGH" -> 20 [] tier = "MID" -> 15 [] OTHER -> 10
        IN /\ verdict.severity_level = tier
           /\ verdict.result = IF t >= approve THEN Approve
                               ELSE IF t >= conditional THEN ConditionalApprove
                               ELSE Reject

\* Scenario C: two partial approvals at severity 50 and one failed judge are
\* rejected in the MID tier.
C11_Witness ==
    /\ HasVerdict
    /\ Cardinality(SuccessfulJudges) = 2
    /\ Voting(PartialApprove) = SuccessfulJudges
    /\ verdict.judgment_severity = 50
    /\ verdict.severity_level = "MID"
    /\ verdict.result = Reject

\* C12 (as stated): when no veto applies, the total vote score is the sum over
\* the successful judges of 1.0 per Approve and 0.5 per PartialApprove.
C12_WeightedVote ==
    (HasVerdict /\ Vetoing = {}) =>
        verdict.total_score
            = 10 * Cardinality(Voting(Approve)) + 5 * Cardinality(Voting(PartialApprove))

\* C12 (amended): when neither a veto nor the not-applicable short circuit
\* applies, the total vote score is the sum over the successful judges of 1.0
\* per Approve and 0.5 per PartialApprove, a multiple of 0.5 within 0.0..3.0
\* and at most the number of successful judges; under the short circuit it
\* is 0.
C12_WeightedVoteUnlessNotApplicable ==
    (HasVerdict /\ Vetoing = {}) =>
        LET t == verdict.total_score
        IN IF ShortCircuited THEN t = 0
           ELSE /\ t = 10 * Cardinality(Voting(Approve))
                       + 5 * Cardinality(Voting(PartialApprove))
                /\ t \in {5 * k : k \in 0..6}
                /\ t <= 10 * Cardinality(SuccessfulJudges)

\* One approval, one partial approval and a failed judge give 1.5.
C12_Witness ==
    /\ HasVerdict
    /\ Vetoing = {}
    /\ Cardinality(SuccessfulJudges) = 2
    /\ Cardinality(Voting(Approve)) = 1
    /\ Cardinality(Voting(PartialApprove)) = 1
    /\ verdict.total_score = 15

\* C13: the result of every call that returned is well-formed: a successful
\* one carries an opinion with all required fields that the aggregator counts;
\* a failed one carries no opinion and a non-empty error text.
C13_ResultWellFormed ==
    \A i \in Judges :
        task[i] = "returned" =>
            LET r == taskValue[i]
            IN /\ r.success =>
                     /\ IsDict(r.response)
                     /\ FirstMissing(required_fields, DOMAIN r.response) = ""
                     /\ Counted(r)
               /\ ~r.success =>
                     /\ r.response = NoneVal
                     /\ IsStr(r.error)
                     /\ r.error # JStr("")

\* C19: whenever the caller fails for lack of quorum, its error names each of
\* the three judges with that judge's error.
C19_QuorumErrorEnumeratesJudges ==
    (verdict.st = "error" /\ Cardinality(SuccessfulJudges) < 2) =>
        /\ "details" \in DOMAIN verdict.error
        /\ \A i \in Judges :
              \E k \in DOMAIN verdict.error.details :
                  /\ verdict.error.details[k].ai = ConfiguredName(nodes, i)
                  /\ verdict.error.details[k].error = Results[i].error

\* The object under validation, and what the validator and the call made of it.
Input == validation.input
Validated ==
    /\ validation.st \in {"validated", "revalidated"}
    /\ ~Raised(validation.first)
    /\ validation.first.is_valid
Sanitized == validation.first.sanitized
Called == validation.st = "called"

\* Whether a value is a number within lo..hi; whether an average is.
NumberIn(v, lo, hi) == IsNum(v) /\ v.num >= lo /\ v.num <= hi
AverageIn(a, lo, hi) ==
    \/ NumberIn(a, lo, hi)
    \/ /\ "avg" \in DOMAIN a
       /\ a.avg.sum >= lo * a.avg.count
       /\ a.avg.sum <= hi * a.avg.count

\* C14: whenever validation succeeds, the four scores lie in 0.0..1.0, the
\* severity is an integer in 0..100 and average_score lies in 0.0..1.0.
C14_RangesAfterValidation ==
    Validated =>
        /\ \A k \in RequiredScoreSet : NumberIn(Sanitized["scores"][k], 0, 100)
        /\ NumberIn(Sanitized["severity"], 0, 100)
        /\ AverageIn(Sanitized["average_score"], 0, 100)

\* Values that no coercion turns into a number (into an integer, for the
\* severity).
NotANumber(v) ==
    \/ v = NoneVal \/ IsList(v) \/ IsDict(v)
    \/ IsStr(v) /\ v.str \notin {"60", "0.5"}
NotAnInteger(v) == NotANumber(v) \/ v = JInf

\* The required keys an object lacks or holds an uncoercible value for.
OffendingKeys(x) ==
    {k \in {required_fields[i] : i \in 1..Len(required_fields)} : k \notin DOMAIN x}
    \cup (IF "scores" \notin DOMAIN x THEN {}
          ELSE IF ~IsDict(x["scores"]) THEN RequiredScoreSet
          ELSE {k \in RequiredScoreSet : k \notin DOMAIN x["scores"]}
               \cup {k \in RequiredScoreSet \cap DOMAIN x["scores"] : NotANumber(x["scores"][k])})
    \cup (IF "severity" \in DOMAIN x /\ NotAnInteger(x["severity"]) THEN {"severity"} ELSE {})

\* Whether an error message names the key.
NamesKey(msg, k) ==
    \/ msg \in {JStr("missing required field: " \o k), JStr("missing required score: " \o k),
                JStr("invalid score value: " \o k)}
    \/ k = "severity" /\ msg = JStr("invalid severity value")

\* C15: for an object with an offending key, validation returns an error that
\* names an offending key and no sanitized object, and the judge that printed
\* the object gets a failure result.
C15_HardValidationErrors ==
    (IsDict(Input) /\ OffendingKeys(Input) # {}) =>
        /\ validation.st = "validated" =>
              /\ ~Raised(validation.first)
              /\ ~validation.first.is_valid
              /\ validation.first.sanitized = NoneVal
              /\ \E k \in OffendingKeys(Input) : NamesKey(validation.first.error_msg, k)
        /\ Called =>
              /\ ~IsException(validation.result)
              /\ validation.result.success = FALSE
              /\ validation.result.response = NoneVal

\* Numbers as the validator's input may spell them.
Numeric(v) == IsNum(v) \/ IsFloat(v) \/ IsBool(v) \/ (IsStr(v) /\ v.str \in {"60", "0.5"})
Integral(v) == IsNum(v) \/ IsFloat(v) \/ IsBool(v) \/ v = JStr("60")

\* An object that is well-formed but for its decision and veto flag: the
\* required keys, the four scores and nothing else in the score container,
\* numbers for the scores and the severity.
WellFormedButEnums(x) ==
    /\ IsDict(x)
    /\ OffendingKeys(x) = {}
    /\ DOMAIN x["scores"] = RequiredScoreSet
    /\ \A k \in RequiredScoreSet : Numeric(x["scores"][k])
    /\ Integral(x["severity"])

NoFlag(x) == "hard_flag" \notin DOMAIN x \/ x["hard_flag"] \notin ValidHardFlags

\* C16: an otherwise well-formed object validates successfully whatever its
\* decision and veto flag: an illegal decision becomes Reject, an illegal or
\* absent flag becomes none, legal values stay, and the judge that printed
\* the object is successful and counted.
C16_EnumDefaults ==
    WellFormedButEnums(Input) =>
        LET decision == IF Input["decision"] \in ValidDecisions THEN Input["decision"] ELSE Reject
            flag == IF NoFlag(Input) THEN JStr("none") ELSE Input["hard_flag"]
        IN /\ validation.st = "validated" =>
                 /\ Validated
                 /\ Sanitized["decision"] = decision
                 /\ Sanitized["hard_flag"] = flag
           /\ Called =>
                 /\ validation.result.success
                 /\ Counted(validation.result)
                 /\ validation.result.response["decision"] = decision
                 /\ validation.result.response["hard_flag"] = flag

\* A judge that printed an unknown decision and no flag is counted with the
\* decision Reject and the flag none.
C16_Witness ==
    /\ Called
    /\ WellFormedButEnums(Input)
    /\ Input["decision"] = JStr("maybe")
    /\ "hard_flag" \notin DOMAIN Input
    /\ validation.result.success
    /\ validation.result.response["decision"] = Reject
    /\ validation.result.response["hard_flag"] = JStr("none")

\* C17: validating the sanitized object of a successful validation succeeds
\* and returns that object unchanged.
C17_ValidatorIdempotent ==
    validation.st = "revalidated" =>
        /\ ~Raised(validation.second)
        /\ validation.second.is_valid
        /\ validation.second.sanitized = Sanitized

\* An object that validation changed in its scores, severity, decision, flag,
\* concerns and average has been validated twice.
C17_Witness ==
    /\ validation.st = "revalidated"
    /\ Sanitized["scores"] # Input["scores"]
    /\ Sanitized["severity"] # Input["severity"]
    /\ Sanitized["decision"] # Input["decision"]
    /\ "hard_flag" \in DOMAIN Input /\ Sanitized["hard_flag"] # Input["hard_flag"]
    /\ "concerns" \notin DOMAIN Input
    /\ "average_score" \notin DOMAIN Input
    /\ validation.second.sanitized = Sanitized

\* C18: when the object supplies no average_score, the validated average is
\* the mean of the four clamped scores, whatever else the score container
\* holds.
C18_AverageOfFourScores ==
    (Validated /\ "average_score" \notin DOMAIN Input) =>
        LET a == Sanitized["average_score"]
            four == Sanitized["scores"]["validity"].num + Sanitized["scores"]["feasibility"].num
                    + Sanitized["scores"]["risk"].num + Sanitized["scores"]["certainty"].num
        IN /\ "avg" \in DOMAIN a
           /\ 4 * a.avg.sum = four * a.avg.count

\* The labelled fenced blocks of the text, well-formed or not.
LabelledBlocks ==
    {i \in 1..Len(recovery.segs) :
        recovery.segs[i].kind \in {"json_block", "json_block_malformed"}}
Extracted == recovery.st = "extracted"

\* C20: for a text that holds a single fenced block labelled json, and that
\* one well-formed, extract_json_from_markdown returns the parsed content of
\* that block, whatever prose, raw objects and unlabelled fences surround it.
C20_LabelledFenceWins ==
    Extracted =>
        \A i \in LabelledBlocks :
            (LabelledBlocks = {i} /\ recovery.segs[i].kind = "json_block") =>
                recovery.result = recovery.segs[i].value

\* The labelled block is returned although a raw object and an unlabelled
\* fenced block with another object come before it.
C20_Witness ==
    /\ Extracted
    /\ Len(recovery.segs) = 3
    /\ recovery.segs[1].kind = "raw_object"
    /\ recovery.segs[2].kind = "plain_block"
    /\ recovery.segs[3].kind = "json_block"
    /\ recovery.result = recovery.segs[3].value
    /\ recovery.result = "a" :> JNum(1)

\* C29: whenever exactly 2 of the 3 judges succeed and the verdict's severity
\* is 80 or more, the verdict is never Approve, and it is ConditionalApprove
\* only when both successful judges voted Approve.
C29_DegradedPanelHighSeverity ==
    (HasVerdict /\ Cardinality(SuccessfulJudges) = 2 /\ verdict.judgment_severity >= 80) =>
        /\ verdict.result # Approve
        /\ verdict.result = ConditionalApprove => Voting(Approve) = SuccessfulJudges

\* Two approvals at severity 80 and a failed judge end in ConditionalApprove.
C29_Witness ==
    /\ HasVerdict
    /\ Cardinality(SuccessfulJudges) = 2
    /\ Voting(Approve) = SuccessfulJudges
    /\ verdict.judgment_severity = 80
    /\ verdict.total_score = 20
    /\ verdict.result = ConditionalApprove

\* Favourability of a verdict and of a judge's decision.
Favour(result) ==
    CASE result = Reject -> 0 [] result = ConditionalApprove -> 1 [] result = Approve -> 2
DecisionRank(decision) ==
    CASE decision = Reject -> 0 [] decision = PartialApprove -> 1 [] decision = Approve -> 2

\* The verdict the caller reaches for the results in which judge i's opinion
\* is replaced by another.
VerdictWith(i, opinion) ==
    LET results == [Results EXCEPT ![i].response = opinion]
    IN IF flow = "judge_issue" THEN judge_issue(results) ELSE run_judgment(results)

\* The opinions that differ from judge i's in a higher severity only, and in
\* a more favourable decision only.
MoreSevere(i) ==
    {[Results[i].response EXCEPT !["severity"] = JNum(v)] :
        v \in {w \in TierPoints : w > Results[i].response["severity"].num}}
MoreFavourable(i) ==
    {[Results[i].response EXCEPT !["decision"] = d] :
        d \in {e \in {PartialApprove, Approve} :
                  /\ DecisionOf(i) \in {Reject, PartialApprove}
                  /\ DecisionRank(e) > DecisionRank(DecisionOf(i))}}

\* C30: for a panel without the not-applicable short circuit, raising one
\* successful judge's severity never makes the verdict more favourable, and
\* changing one successful judge's decision to a more favourable one never
\* makes it less favourable (Reject < ConditionalApprove < Approve).
C30_VerdictMonotone ==
    (HasVerdict /\ ~ShortCircuited) =>
        \A i \in Opining :
            /\ \A o \in MoreSevere(i) :
                  Favour(VerdictWith(i, o).result) <= Favour(verdict.result)
            /\ \A o \in MoreFavourable(i) :
                  Favour(VerdictWith(i, o).result) >= Favour(verdict.result)

\* A panel approved at severity 60 (two approvals, one rejection) that is only
\* conditionally approved once a judge raises its severity to 80, and that
\* one more favourable decision would still leave approved.
C30_Witness ==
    /\ HasVerdict
    /\ Opining = Judges
    /\ verdict.judgment_severity = 60
    /\ verdict.result = Approve
    /\ Cardinality(Voting(Approve)) = 2
    /\ Cardinality(Voting(Reject)) = 1
    /\ \E i \in Opining : \E o \in MoreSevere(i) :
          o["severity"].num = 80 /\ VerdictWith(i, o).result = ConditionalApprove
    /\ \E i \in Voting(Reject) : \E o \in MoreFavourable(i) :
          VerdictWith(i, o).result = Approve

\* The results that carry an opinion, in submission order.
OpinionResults == SelectSeq(Results, Counted)

\* C22: whenever the verdict is ConditionalApprove, its reasoning carries the
\* concern summary of generate_conditional_reasoning: the concerns of the
\* judges that decided PartialApprove or Reject, without repetition, at most
\* three, or the evaluation-pending sentence when there is none.
C22_ConditionalReasoningHasConcerns ==
    (HasVerdict /\ verdict.result = ConditionalApprove) =>
        /\ "concerns" \in DOMAIN verdict.reasoning
        /\ verdict.reasoning.concerns =
             generate_conditional_reasoning(OpinionResults, verdict.total_score,
                                            verdict.judgment_severity,
                                            verdict.severity_level).concerns

\* The slot of the JudgmentModel that belongs to judge i.
SlotName(i) == <<"claude", "gemini", "chatgpt">>[i]

\* C24: in the JudgmentModel that judge_issue returns, the slot of every judge
\* that succeeded holds that judge's response, and the slot of every judge
\* that failed is None, under the configured nodes and under the built-in
\* judge list.
C24_SlotsHoldSuccessfulJudges ==
    (flow = "judge_issue" /\ HasVerdict) =>
        \A i \in Judges :
            IF Results[i].success
            THEN /\ verdict[SlotName(i)] # NoneVal
                 /\ verdict[SlotName(i)].decision = Results[i].response["decision"]
                 /\ verdict[SlotName(i)].severity = Results[i].response["severity"]
            ELSE verdict[SlotName(i)] = NoneVal


\* The text of the recoverer specification after the repair of field names
\* that lack their opening quote.
RepairedText == fix_missing_quotes(TextOf(recovery.segs))

\* No fenced block of the text t, labelled or not, yields a value.
NoFenceYields(t) ==
    /\ ~(fence_search(t, TRUE).found /\ json_loads(fence_search(t, TRUE).content).ok)
    /\ ~(fence_search(t, FALSE).found /\ json_loads(fence_search(t, FALSE).content).ok)

\* The raw scan that C25 describes: after a balanced span that does not
\* parse, and after an opening brace that is never closed, the scan goes on
\* just behind that opening brace.
RECURSIVE ScanBehindFailedBrace(_, _)
ScanBehindFailedBrace(t, search_start) ==
    LET braces == {i \in search_start..Len(t) : t[i] = "LB"}
        start_idx == CHOOSE i \in braces : \A k \in braces : i <= k
        end_idx == closing_brace(t, start_idx, 0, FALSE, FALSE)
    IN IF braces = {} THEN NoneVal
       ELSE IF end_idx # 0 /\ json_loads(SubSeq(t, start_idx, end_idx)).ok
       THEN json_loads(SubSeq(t, start_idx, end_idx)).value
       ELSE ScanBehindFailedBrace(t, start_idx + 1)

\* C25: in the raw brace scan, when a balanced span that starts at an opening
\* brace fails to parse, scanning resumes just behind that opening brace, not
\* behind the end of the failed span, so that a well-formed object nested in
\* a malformed outer span is still found and returned: whenever no fenced
\* block yields a value, the recoverer returns what that scan finds.
C25_ScanResumesBehindFailedBrace ==
    (Extracted /\ NoFenceYields(RepairedText)) =>
        recovery.result = ScanBehindFailedBrace(RepairedText, 1)

\* The call specification: a call has returned on the text.
CalledOnText == recovery.st = "called"
CallText == TextOf(recovery.segs)
CallKinds == {recovery.segs[i].kind : i \in 1..Len(recovery.segs)}

\* Some span of t from an opening to a closing brace parses; some stretch
\* between two fence marks parses, with or without the label json in front.
ParseableSpan(t) ==
    \E i \in {k \in 1..Len(t) : t[k] = "LB"}, j \in {k \in 1..Len(t) : t[k] = "RB"} :
        i < j /\ json_loads(SubSeq(t, i, j)).ok
ParseableFence(t) ==
    \E i, j \in {k \in 1..Len(t) : t[k] = "TICKS"} :
        /\ i < j
        /\ \/ json_loads(SubSeq(t, i + 1, j - 1)).ok
           \/ i + 1 < j /\ t[i + 1] = "JSON" /\ json_loads(SubSeq(t, i + 2, j - 1)).ok
NoStructuredObject(t) == ~ParseableSpan(t) /\ ~ParseableFence(t)

\* C21: for every text that holds no structured object (no fenced block that
\* parses and no brace span that parses, field names that lack their opening
\* quote repaired), the recoverer returns None and the judge's call returns a
\* failure: success is false, there is no response, and what the call hands
\* back is a result, not an exception.
C21_NoObjectNoCrash ==
    (CalledOnText /\ NoStructuredObject(fix_missing_quotes(CallText))) =>
        /\ extract_json_from_markdown(CallText) = NoneVal
        /\ ~IsException(recovery.result)
        /\ ~recovery.result.success
        /\ recovery.result.response = NoneVal

\* The ChatGPT call has returned a failure on a text in which a malformed
\* object, an opening brace that is never closed and a backslash at the end
\* are all there is.
C21_Witness ==
    /\ CalledOnText
    /\ recovery.engine = "ChatGPT"
    /\ Len(recovery.segs) = 3
    /\ recovery.segs[1].kind = "raw_malformed"
    /\ recovery.segs[2].kind = "raw_open"
    /\ recovery.segs[3].kind = "backslash"
    /\ NoStructuredObject(fix_missing_quotes(CallText))
    /\ ~recovery.result.success

\* The text is made of well-formed objects, lines of prose and newlines only.
WellFormedPieces ==
    CallKinds \subseteq {"opinion", "not_applicable", "persona", "scores_only",
                         "fenced_opinion", "prose_line", "newline"}
\* The segments whose object the filter does not discard.
Kept == {i \in 1..Len(recovery.segs) : recovery.segs[i].kind \in {"opinion", "fenced_opinion"}}
\* The segments that hold a NOT_APPLICABLE object.
NotApplicableSegments ==
    {i \in 1..Len(recovery.segs) : recovery.segs[i].kind = "not_applicable"}

\* C26: for a ChatGPT/Codex judge whose output holds several well-formed
\* objects, every well-formed object of the text is considered and the
\* opinion selected is the last one in text order among those the filter
\* (persona echo, NOT_APPLICABLE object, bare score object) does not discard;
\* with no object left there is no opinion.
C26_LastCandidateSelected ==
    (CalledOnText /\ recovery.engine = "ChatGPT" /\ WellFormedPieces) =>
        recovery.result =
            finish_call(IF Kept = {} THEN NoneVal ELSE recovery.segs[SetMax(Kept)].value,
                        recovery.stderr)

\* C27: in the multi-candidate selection the NOT_APPLICABLE object is
\* discarded when a more authoritative candidate exists, and when it is the
\* only well-formed object that is no persona echo it is kept and becomes the
\* judge's opinion: the call succeeds with the decision NOT_APPLICABLE.
C27_LoneNotApplicableKept ==
    (CalledOnText /\ recovery.engine = "ChatGPT" /\ WellFormedPieces) =>
        /\ (Kept # {} /\ recovery.result.success) =>
               recovery.result.response["decision"] # NotApplicable
        /\ (/\ Cardinality(NotApplicableSegments) = 1
            /\ CallKinds \subseteq {"not_applicable", "persona", "prose_line", "newline"}) =>
               /\ recovery.result.success
               /\ recovery.result.response["decision"] = NotApplicable

\* Every iteration of the two loops that does not end its loop moves the
\* search position forward.
SearchAdvances ==
    /\ (recovery.st = "scanning" /\ recovery'.st = "scanning") =>
           recovery'.search_start > recovery.search_start
    /\ (recovery.st = "selecting" /\ recovery'.st = "selecting") =>
           recovery'.search_pos > recovery.search_pos

\* C28: for every finite text, also with unbalanced braces, unterminated
\* strings or trailing backslashes, the raw brace scan of
\* extract_json_from_markdown and the multi-candidate loop built on it
\* terminate, and the search position strictly increases on every iteration.
C28_RecoveryTerminates ==
    /\ [][SearchAdvances]_vars
    /\ <>(recovery.st = "ended")

\* The raw scan has ended without a value on the text of an opening brace
\* that is never closed, a quote that is never closed and a backslash at the
\* end.
C28_Witness ==
    /\ recovery.st = "ended"
    /\ recovery.loop = "raw_scan"
    /\ recovery.toks = <<"LB", "QT", "BS">>
    /\ recovery.outcome = NoneVal

\* The events of a type among the events q.
OfType(q, type) == {k \in 1..Len(q) : q[k] # Sentinel /\ q[k].type = type}
TerminalTypes == {"final_result", "error"}
Terminals(q) == {k \in 1..Len(q) : q[k] # Sentinel /\ q[k].type \in TerminalTypes}

\* C23: in the SSE judgment stream one ai_complete event is delivered for
\* each of the three judges, whatever its outcome, also for a judge whose
\* call raised; every ai_complete event is delivered before the single
\* terminal event (final_result or error), and the stream then ends; no
\* completion event is put behind the terminal event or the sentinel.
C23_StreamEventOrder ==
    /\ stream.ended =>
          /\ Len(stream.delivered) = NumJudges + 1
          /\ \A i \in Judges :
                 Cardinality({k \in OfType(stream.delivered, "ai_complete") :
                                 stream.delivered[k].ai = Lower(ConfiguredName(nodes, i))}) = 1
          /\ Terminals(stream.delivered) = {NumJudges + 1}
    /\ \A k \in OfType(stream.put, "ai_complete") :
          \A j \in 1..Len(stream.put) :
              (stream.put[j] = Sentinel \/ j \in Terminals(stream.put)) => k < j
====
